---- MODULE Spec2Model ----
(***************************************************************************)
(* Loan lifecycle of the library application: PrestamoController over the  *)
(* tables tblLibros, tblUsuarios and tblPrestamos.                         *)
(*                                                                         *)
(* The committed content of the three tables is the state.  A controller   *)
(* call is one action: it opens a session, validates, mutates the          *)
(* session's objects, commits, and on an exception rolls back; the session *)
(* is closed on the way out.  Changes made on session objects reach the    *)
(* tables only through a commit that succeeds (autocommit=False,           *)
(* autoflush=False, src/database.py line 61).                              *)
(***************************************************************************)
EXTENDS Naturals, Sequences, FiniteSets, TLC

VARIABLES libros, usuarios, prestamos, reloj, ultimo,
          hilos, controlador, sesiones, llamadas

vars == <<libros, usuarios, prestamos, reloj, ultimo, hilos, controlador, sesiones, llamadas>>

(***************************************************************************)
(* Bounds of the model.                                                    *)
(***************************************************************************)
NumLibros == 2          \* rows of tblLibros
NumUsuarios == 2        \* rows of tblUsuarios
MaxPrestamos == 2       \* cap on the rows of tblPrestamos
MaxReloj == 2           \* last instant the clock reaches
MaxAvance == 1          \* most instants between two readings of the clock
InstantesPorDia == 2    \* clock instants in one day
NumHilos == 2           \* request threads, and controller instances
MaxAltas == 1           \* cap on the users UsuarioController.crear adds
MaxSesiones == 4        \* cap on the sessions opened by direct get_session calls
MaxLlamadas == 2        \* cap on the calls the threads make in a run

(***************************************************************************)
(* Program constants.                                                      *)
(***************************************************************************)
DiasPrestamo == 14      \* timedelta(days=14)
MultaInicial == 0       \* Column(..., default=0)

(***************************************************************************)
(* Values.  A DateTime column holds NULL or a timestamp; a timestamp read  *)
(* at instant t is <<t>>, so that no timestamp equals NULL.                *)
(***************************************************************************)
NULL == <<>>
Fecha(t) == <<t>>
Instante(f) == f[1]
timedelta(days) == days * InstantesPorDia
MasDelta(f, delta) == Fecha(Instante(f) + delta)

CatalogoISBN == <<"978-0001", "978-0002", "978-0003", "978-0004">>
ISBNInexistente == "000-0000"
ISBNsIniciales == {CatalogoISBN[n] : n \in 1..NumLibros}
OrdenISBN == SubSeq(CatalogoISBN, 1, NumLibros)

\* tblAutores, and the author of each book of the catalogue.  No operation of
\* the controllers writes to tblAutores.
Autores == <<[Nombres |-> "Gabriel", Apellidos |-> "García Márquez"],
             [Nombres |-> "Isabel", Apellidos |-> "Allende"]>>
AutorDeCatalogo == <<1, 1, 2, 2>>
AutorDeISBN(isbn) == AutorDeCatalogo[CHOOSE n \in 1..Len(CatalogoISBN) : CatalogoISBN[n] = isbn]

\* Messages of the (exito, mensaje) pairs.
MsgLibroNoEncontrado == "Libro no encontrado."
MsgYaPrestado(titulo) == "El libro '" \o titulo \o "' ya está prestado."
MsgUsuarioNoEncontrado == "Usuario no encontrado."
MsgPrestamoOk == "Préstamo realizado exitosamente."
MsgErrorPrestamo(e) == "Error al procesar préstamo: " \o e
MsgPrestamoNoEncontrado == "Préstamo no encontrado."
MsgYaDevuelto == "Este préstamo ya fue devuelto."
MsgDevolucionOk == "Libro devuelto correctamente. ¡Gracias!"
MsgErrorDevolucion(e) == "Error en devolución: " \o e
MsgUsuarioCreado(nombre, apellido) == "Usuario " \o nombre \o " " \o apellido \o " creado con éxito."
MsgErrorUsuario(e) == "Error al crear usuario: " \o e

\* What a call gives its caller: a returned pair, or an exception that escapes.
Retorna(exito, mensaje) == [lanza |-> FALSE, exito |-> exito, mensaje |-> mensaje]
Lanza(e) == [lanza |-> TRUE, exito |-> FALSE, mensaje |-> e]

(***************************************************************************)
(* Persistence steps that can raise.  "ninguna" is the run in which the    *)
(* store answers every request.                                            *)
(***************************************************************************)
PasosCrear == {"get_session", "query_libro", "query_usuario", "commit"}
PasosDevolver == {"get_session", "query_prestamo", "query_libro", "commit"}
PasosUsuario == {"get_session", "commit"}
Ninguna == "ninguna"

(***************************************************************************)
(* Rows.                                                                   *)
(***************************************************************************)
LibroExiste(tabla, isbn) == isbn \in DOMAIN tabla

\* Variant: every user id is taken to exist.
UsuarioExiste_Siempre(tabla, usuario_id) == TRUE

UsuarioExiste(tabla, usuario_id) == usuario_id \in DOMAIN tabla
PrestamoExiste(tabla, id_prestamo) == id_prestamo \in 1..Len(tabla)


\* Variant: the loan is created with its return date already set.
NuevoPrestamo_Cerrado(id, isbn, usuario_id, ahora1, ahora2) ==
  [IdPrestamo |-> id,
   IdUsuario |-> usuario_id,
   ISBN |-> isbn,
   FechaPrestamo |-> Fecha(ahora1),
   FechaVencimiento |-> MasDelta(Fecha(ahora2), timedelta(DiasPrestamo)),
   FechaDevolucion |-> Fecha(ahora1),
   MultaPagar |-> MultaInicial]

\* Prestamo(ISBN=..., IdUsuario=..., FechaPréstamo=now, FechaVencimiento=now+14d,
\* FechaDevolución=None); IdPrestamo is the autoincrement key, MultaPagar its default.
NuevoPrestamo(id, isbn, usuario_id, ahora1, ahora2) ==
  [IdPrestamo |-> id,
   IdUsuario |-> usuario_id,
   ISBN |-> isbn,
   FechaPrestamo |-> Fecha(ahora1),
   FechaVencimiento |-> MasDelta(Fecha(ahora2), timedelta(DiasPrestamo)),
   FechaDevolucion |-> NULL,
   MultaPagar |-> MultaInicial]


\* Variant: the book is left as it was.
MarcarPrestado_SinMarcar(tabla, isbn) == tabla

\* Variant: the loan marks every book of the catalogue as out.
MarcarPrestado_Todos(tabla, isbn) ==
  [b \in DOMAIN tabla |-> [tabla[b] EXCEPT !.Disponible = FALSE]]

\* libro.Disponible = False
MarcarPrestado(tabla, isbn) == [tabla EXCEPT ![isbn].Disponible = FALSE]


\* Variant: the book is left as it was.
MarcarDisponible_SinMarcar(tabla, isbn) == tabla

\* libro = query(Libro)...first(); if libro: libro.Disponible = True
MarcarDisponible(tabla, isbn) ==
  IF LibroExiste(tabla, isbn) THEN [tabla EXCEPT ![isbn].Disponible = TRUE] ELSE tabla


\* Variant: the return date is not looked at.
YaDevuelto_Nunca(p) == FALSE

\* if prestamo.FechaDevolución: a DateTime is truthy, None is not
YaDevuelto(p) == p.FechaDevolucion # NULL


\* Variant: the returned loan is deleted from the ledger.
RegistrarDevolucion_Borra(tabla, id_prestamo, ahora) ==
  SubSeq(tabla, 1, id_prestamo - 1) \o SubSeq(tabla, id_prestamo + 1, Len(tabla))

\* Variant: every loan of the ledger gets the return date.
RegistrarDevolucion_Todos(tabla, id_prestamo, ahora) ==
  [i \in 1..Len(tabla) |-> [tabla[i] EXCEPT !.FechaDevolucion = Fecha(ahora)]]

\* Variant: a return after the due date charges a fee.
RegistrarDevolucion_ConMulta(tabla, id_prestamo, ahora) ==
  [tabla EXCEPT ![id_prestamo].FechaDevolucion = Fecha(ahora),
                ![id_prestamo].MultaPagar =
                   IF ahora > Instante(tabla[id_prestamo].FechaVencimiento) THEN 1 ELSE 0]

\* prestamo.FechaDevolución = datetime.now()
RegistrarDevolucion(tabla, id_prestamo, ahora) ==
  [tabla EXCEPT ![id_prestamo].FechaDevolucion = Fecha(ahora)]

\* A loan is open while its FechaDevolución is NULL.
Abierto(p) == p.FechaDevolucion = NULL
AbiertosDe(tabla, isbn) == {i \in 1..Len(tabla) : tabla[i].ISBN = isbn /\ Abierto(tabla[i])}

(***************************************************************************)
(* Session.  The objects a session has loaded or added are its view of the *)
(* tables; commit() writes the view in one transaction, and a commit that  *)
(* raises writes nothing.  rollback() and close() discard the view.        *)
(***************************************************************************)
Tablas(tl, tp) == [libros |-> tl, prestamos |-> tp]

\* session.commit(): the tables after it, and whether it raised
Commit(tablas, vista, falla) ==
  [lanza |-> (falla = "commit"), tablas |-> IF falla = "commit" THEN tablas ELSE vista]

\* str(e) of the exception a persistence step raises
Excepcion(paso) == "fallo en " \o paso

\* Outcomes of the validation part of a handler.
Sigue == [tipo |-> "sigue", dato |-> ""]
Sale(mensaje) == [tipo |-> "sale", dato |-> mensaje]
Falla(paso) == [tipo |-> "falla", dato |-> paso]

(***************************************************************************)
(* crear_prestamo                                                          *)
(***************************************************************************)

\* Variant: the availability of the book is not checked.
ValidarPrestamo_SinDisponible(tl, tu, isbn, usuario_id, falla) ==
  IF falla = "query_libro" THEN Falla("query_libro")
  ELSE IF ~LibroExiste(tl, isbn) THEN Sale(MsgLibroNoEncontrado)
  ELSE IF falla = "query_usuario" THEN Falla("query_usuario")
  ELSE IF ~UsuarioExiste(tu, usuario_id) THEN Sale(MsgUsuarioNoEncontrado)
  ELSE Sigue

\* Variant: the user is not looked up.
ValidarPrestamo_SinUsuario(tl, tu, isbn, usuario_id, falla) ==
  IF falla = "query_libro" THEN Falla("query_libro")
  ELSE IF ~LibroExiste(tl, isbn) THEN Sale(MsgLibroNoEncontrado)
  ELSE IF ~(tl[isbn].Disponible) THEN Sale(MsgYaPrestado(tl[isbn].Titulo))
  ELSE Sigue

\* Variant: the user is checked before the book.
ValidarPrestamo_UsuarioPrimero(tl, tu, isbn, usuario_id, falla) ==
  IF falla = "query_usuario" THEN Falla("query_usuario")
  ELSE IF ~UsuarioExiste(tu, usuario_id) THEN Sale(MsgUsuarioNoEncontrado)
  ELSE IF falla = "query_libro" THEN Falla("query_libro")
  ELSE IF ~LibroExiste(tl, isbn) THEN Sale(MsgLibroNoEncontrado)
  ELSE IF ~(tl[isbn].Disponible) THEN Sale(MsgYaPrestado(tl[isbn].Titulo))
  ELSE Sigue

\* The three checks of crear_prestamo, in the order of the code: the book
\* query and "if not libro", "if not libro.Disponible", the user query and
\* "if not usuario".
ValidarPrestamo(tl, tu, isbn, usuario_id, falla) ==
  IF falla = "query_libro" THEN Falla("query_libro")
  ELSE IF ~LibroExiste(tl, isbn) THEN Sale(MsgLibroNoEncontrado)
  ELSE IF ~(tl[isbn].Disponible) THEN Sale(MsgYaPrestado(tl[isbn].Titulo))
  ELSE IF falla = "query_usuario" THEN Falla("query_usuario")
  ELSE IF ~UsuarioExiste(tu, usuario_id) THEN Sale(MsgUsuarioNoEncontrado)
  ELSE Sigue

\* except Exception as e: session.rollback(); return False, f"Error ...: {e}".
\* A rollback that raises leaves the except block with that exception.
ManejarErrorPrestamo(paso, rollbackFalla) ==
  IF rollbackFalla THEN Lanza(Excepcion("rollback"))
  ELSE Retorna(FALSE, MsgErrorPrestamo(Excepcion(paso)))

\* The view of the session once the loan is added and the book is marked.
VistaPrestamo(tl, tp, isbn, usuario_id, ahora1, ahora2) ==
  Tablas(MarcarPrestado(tl, isbn),
         Append(tp, NuevoPrestamo(Len(tp) + 1, isbn, usuario_id, ahora1, ahora2)))


\* Variant: the book is marked, and the mark committed, before the user is
\* looked up.
crear_prestamo_MarcaAntes(tl, tu, tp, ahora, isbn, usuario_id, falla, rollbackFalla, avance1, avance2) ==
  LET queda(t, r, f) == [libros |-> tl, prestamos |-> tp, reloj |-> t, retorno |-> r, fallo |-> f]
      v == ValidarPrestamo(tl, tu, isbn, usuario_id, falla)
      ahora1 == ahora + avance1
      ahora2 == ahora1 + avance2
  IN IF falla = "get_session" THEN queda(ahora, Lanza(Excepcion("get_session")), "get_session")
     ELSE IF v.tipo = "falla" THEN queda(ahora, ManejarErrorPrestamo(v.dato, rollbackFalla), v.dato)
     ELSE IF v.tipo = "sale" /\ v.dato = MsgUsuarioNoEncontrado
       THEN [libros |-> MarcarPrestado(tl, isbn), prestamos |-> tp, reloj |-> ahora,
             retorno |-> Retorna(FALSE, v.dato), fallo |-> Ninguna]
     ELSE IF v.tipo = "sale" THEN queda(ahora, Retorna(FALSE, v.dato), Ninguna)
     ELSE LET c == Commit(Tablas(tl, tp),
                          VistaPrestamo(tl, tp, isbn, usuario_id, ahora1, ahora2), falla)
          IN [libros |-> c.tablas.libros, prestamos |-> c.tablas.prestamos, reloj |-> ahora2,
              retorno |-> IF c.lanza THEN ManejarErrorPrestamo("commit", rollbackFalla)
                          ELSE Retorna(TRUE, MsgPrestamoOk),
              fallo |-> IF c.lanza THEN "commit" ELSE Ninguna]

\* The whole call.  avance1 and avance2 are the instants that pass before the
\* first and before the second datetime.now().
crear_prestamo(tl, tu, tp, ahora, isbn, usuario_id, falla, rollbackFalla, avance1, avance2) ==
  LET queda(t, r, f) == [libros |-> tl, prestamos |-> tp, reloj |-> t, retorno |-> r, fallo |-> f]
      v == ValidarPrestamo(tl, tu, isbn, usuario_id, falla)
      ahora1 == ahora + avance1
      ahora2 == ahora1 + avance2
  IN IF falla = "get_session" THEN queda(ahora, Lanza(Excepcion("get_session")), "get_session")
     ELSE IF v.tipo = "falla" THEN queda(ahora, ManejarErrorPrestamo(v.dato, rollbackFalla), v.dato)
     ELSE IF v.tipo = "sale" THEN queda(ahora, Retorna(FALSE, v.dato), Ninguna)
     ELSE LET c == Commit(Tablas(tl, tp),
                          VistaPrestamo(tl, tp, isbn, usuario_id, ahora1, ahora2), falla)
          IN [libros |-> c.tablas.libros, prestamos |-> c.tablas.prestamos, reloj |-> ahora2,
              retorno |-> IF c.lanza THEN ManejarErrorPrestamo("commit", rollbackFalla)
                          ELSE Retorna(TRUE, MsgPrestamoOk),
              fallo |-> IF c.lanza THEN "commit" ELSE Ninguna]

(***************************************************************************)
(* devolver_libro                                                          *)
(***************************************************************************)

\* Variant: a loan already returned is returned again.
ValidarDevolucion_SinYaDevuelto(tp, id_prestamo, falla) ==
  IF falla = "query_prestamo" THEN Falla("query_prestamo")
  ELSE IF ~PrestamoExiste(tp, id_prestamo) THEN Sale(MsgPrestamoNoEncontrado)
  ELSE Sigue

\* The loan query, "if not prestamo" and "if prestamo.FechaDevolución".
ValidarDevolucion(tp, id_prestamo, falla) ==
  IF falla = "query_prestamo" THEN Falla("query_prestamo")
  ELSE IF ~PrestamoExiste(tp, id_prestamo) THEN Sale(MsgPrestamoNoEncontrado)
  ELSE IF YaDevuelto(tp[id_prestamo]) THEN Sale(MsgYaDevuelto)
  ELSE Sigue

\* except Exception as e: session.rollback(); return False, f"Error en devolución: {e}"
ManejarErrorDevolucion(paso, rollbackFalla) ==
  IF rollbackFalla THEN Lanza(Excepcion("rollback"))
  ELSE Retorna(FALSE, MsgErrorDevolucion(Excepcion(paso)))

\* Variant: the return sets the date and leaves the book as it was.
VistaDevolucion_SoloPrestamo(tl, tp, id_prestamo, ahora1) ==
  Tablas(tl, RegistrarDevolucion(tp, id_prestamo, ahora1))

\* The view of the session once the return date is set and the book marked.
VistaDevolucion(tl, tp, id_prestamo, ahora1) ==
  Tablas(MarcarDisponible(tl, tp[id_prestamo].ISBN),
         RegistrarDevolucion(tp, id_prestamo, ahora1))


\* Variant: a loan whose book is missing is not returned.
devolver_libro_ExigeLibro(tl, tp, ahora, id_prestamo, falla, rollbackFalla, avance) ==
  LET queda(t, r, f) == [libros |-> tl, prestamos |-> tp, reloj |-> t, retorno |-> r, fallo |-> f]
      v == ValidarDevolucion(tp, id_prestamo, falla)
      ahora1 == ahora + avance
  IN IF falla = "get_session" THEN queda(ahora, Lanza(Excepcion("get_session")), "get_session")
     ELSE IF v.tipo = "falla" THEN queda(ahora, ManejarErrorDevolucion(v.dato, rollbackFalla), v.dato)
     ELSE IF v.tipo = "sale" THEN queda(ahora, Retorna(FALSE, v.dato), Ninguna)
     ELSE IF falla = "query_libro"
       THEN queda(ahora1, ManejarErrorDevolucion("query_libro", rollbackFalla), "query_libro")
     ELSE IF ~LibroExiste(tl, tp[id_prestamo].ISBN)
       THEN queda(ahora1, Retorna(FALSE, MsgLibroNoEncontrado), Ninguna)
     ELSE LET c == Commit(Tablas(tl, tp), VistaDevolucion(tl, tp, id_prestamo, ahora1), falla)
          IN [libros |-> c.tablas.libros, prestamos |-> c.tablas.prestamos, reloj |-> ahora1,
              retorno |-> IF c.lanza THEN ManejarErrorDevolucion("commit", rollbackFalla)
                          ELSE Retorna(TRUE, MsgDevolucionOk),
              fallo |-> IF c.lanza THEN "commit" ELSE Ninguna]

\* The whole call.  avance is the instants that pass before datetime.now().
devolver_libro(tl, tp, ahora, id_prestamo, falla, rollbackFalla, avance) ==
  LET queda(t, r, f) == [libros |-> tl, prestamos |-> tp, reloj |-> t, retorno |-> r, fallo |-> f]
      v == ValidarDevolucion(tp, id_prestamo, falla)
      ahora1 == ahora + avance
  IN IF falla = "get_session" THEN queda(ahora, Lanza(Excepcion("get_session")), "get_session")
     ELSE IF v.tipo = "falla" THEN queda(ahora, ManejarErrorDevolucion(v.dato, rollbackFalla), v.dato)
     ELSE IF v.tipo = "sale" THEN queda(ahora, Retorna(FALSE, v.dato), Ninguna)
     ELSE IF falla = "query_libro"
       THEN queda(ahora1, ManejarErrorDevolucion("query_libro", rollbackFalla), "query_libro")
     ELSE LET c == Commit(Tablas(tl, tp), VistaDevolucion(tl, tp, id_prestamo, ahora1), falla)
          IN [libros |-> c.tablas.libros, prestamos |-> c.tablas.prestamos, reloj |-> ahora1,
              retorno |-> IF c.lanza THEN ManejarErrorDevolucion("commit", rollbackFalla)
                          ELSE Retorna(TRUE, MsgDevolucionOk),
              fallo |-> IF c.lanza THEN "commit" ELSE Ninguna]

(***************************************************************************)
(* UsuarioController.crear                                                 *)
(***************************************************************************)

\* Variant: the new user is stored inactive.
NuevoUsuario_Inactivo(nombre, apellido, email) ==
  [Nombres |-> nombre, Apellidos |-> apellido, CorreoElectronico |-> email,
   UsuarioActivo |-> FALSE]

\* Usuario(Nombres=nombre, Apellidos=apellido, CorreoElectronico=email,
\* UsuarioActivo=True); IdUsuario is the autoincrement key, the row's place.
NuevoUsuario(nombre, apellido, email) ==
  [Nombres |-> nombre, Apellidos |-> apellido, CorreoElectronico |-> email,
   UsuarioActivo |-> TRUE]

\* except Exception as e: session.rollback(); return False, f"Error al crear
\* usuario: {e}".  get_session is called inside the try: when it raises, the
\* local name session is not bound and session.rollback() raises
\* UnboundLocalError, which leaves the method; so does a rollback that raises.
ManejarErrorUsuario(paso, rollbackFalla) ==
  IF paso = "get_session" THEN Lanza("UnboundLocalError: session")
  ELSE IF rollbackFalla THEN Lanza(Excepcion("rollback"))
  ELSE Retorna(FALSE, MsgErrorUsuario(Excepcion(paso)))

\* The whole call.
crear_usuario(tu, nombre, apellido, email, falla, rollbackFalla) ==
  IF falla = "get_session"
    THEN [usuarios |-> tu, retorno |-> ManejarErrorUsuario("get_session", rollbackFalla),
          fallo |-> "get_session"]
  ELSE LET c == Commit(tu, Append(tu, NuevoUsuario(nombre, apellido, email)), falla)
       IN [usuarios |-> c.tablas,
           retorno |-> IF c.lanza THEN ManejarErrorUsuario("commit", rollbackFalla)
                       ELSE Retorna(TRUE, MsgUsuarioCreado(nombre, apellido)),
           fallo |-> IF c.lanza THEN "commit" ELSE Ninguna]

(***************************************************************************)
(* Read operations.  Each one opens its session inside the try, runs one   *)
(* query and returns the rows as a list; "except Exception" returns the    *)
(* empty list.                                                             *)
(***************************************************************************)
PasosConsulta == {"get_session", "query"}

\* A row of tblLibros as the object the query loads, in primary-key order.
FilaLibro(tl, isbn) ==
  [ISBN |-> isbn, Titulo |-> tl[isbn].Titulo, IdAutor |-> tl[isbn].IdAutor,
   Disponible |-> tl[isbn].Disponible]
FilasLibros(tl) == [n \in 1..Len(OrdenISBN) |-> FilaLibro(tl, OrdenISBN[n])]

\* A loan with its joinedload(Prestamo.libro) and joinedload(Prestamo.usuario).
Resuelto(tl, tu, p) == [prestamo |-> p, libro |-> FilaLibro(tl, p.ISBN), usuario |-> tu[p.IdUsuario]]


\* Variant: no filter on the return date.
FiltroActivos_Todos(p) == TRUE

\* .filter(Prestamo.FechaDevolución == None)
FiltroActivos(p) == p.FechaDevolucion = NULL

\* Variant: the filter is inverted and keeps the returned loans.
obtener_prestamos_activos_Devueltos(tl, tu, tp, falla) ==
  IF falla \in PasosConsulta THEN <<>>
  ELSE LET devuelto(p) == p.FechaDevolucion # NULL
           devueltos == SelectSeq(tp, devuelto)
       IN [n \in 1..Len(devueltos) |-> Resuelto(tl, tu, devueltos[n])]

obtener_prestamos_activos(tl, tu, tp, falla) ==
  IF falla \in PasosConsulta THEN <<>>
  ELSE LET abiertos == SelectSeq(tp, FiltroActivos)
       IN [n \in 1..Len(abiertos) |-> Resuelto(tl, tu, abiertos[n])]


\* Variant: no filter on the flag.
FiltroDisponibles_Todos(l) == TRUE

\* .filter(Libro.Disponible == True)
FiltroDisponibles(l) == l.Disponible = TRUE

obtener_disponibles(tl, falla) ==
  IF falla \in PasosConsulta THEN <<>>
  ELSE SelectSeq(FilasLibros(tl), FiltroDisponibles)

\* LibroController.obtener_todos: query(Libro).options(joinedload...).all()
obtener_todos_libros(tl, falla) ==
  IF falla \in PasosConsulta THEN <<>>
  ELSE FilasLibros(tl)

\* UsuarioController.obtener_todos: query(Usuario).all()
obtener_todos_usuarios(tu, falla) ==
  IF falla \in PasosConsulta THEN <<>>
  ELSE tu

\* Query.first(): the first row of the result, or None.  The result is kept
\* as the list of at most one row, None being the empty one.
first(filas) == IF filas = <<>> THEN <<>> ELSE <<filas[1]>>

\* LibroController.obtener_por_id: query(Libro)...filter(Libro.ISBN ==
\* libro_id).first(); except Exception returns None.
obtener_por_id(tl, libro_id, falla) ==
  IF falla \in PasosConsulta THEN <<>>
  ELSE LET esLibro(l) == l.ISBN = libro_id
       IN first(SelectSeq(FilasLibros(tl), esLibro))

\* A row of tblUsuarios as the object the query loads.
FilaUsuario(tu, id) ==
  [IdUsuario |-> id, Nombres |-> tu[id].Nombres, Apellidos |-> tu[id].Apellidos,
   CorreoElectronico |-> tu[id].CorreoElectronico, UsuarioActivo |-> tu[id].UsuarioActivo]

\* UsuarioController.buscar_por_id: query(Usuario).filter(Usuario.IdUsuario
\* == usuario_id).first(); except Exception returns None.
buscar_por_id(tu, usuario_id, falla) ==
  IF falla \in PasosConsulta THEN <<>>
  ELSE LET filas == [n \in 1..Len(tu) |-> FilaUsuario(tu, n)]
           esUsuario(u) == u.IdUsuario = usuario_id
       IN first(SelectSeq(filas, esUsuario))


\* Variant: the exception of the failing step leaves the method.
ManejarErrorLectura_Propaga(paso) == Lanza(Excepcion(paso))

\* except Exception as e: print(...); return [].  get_session is called inside
\* the try, so the block handles its exception too.
ManejarErrorLectura(paso) == Retorna(FALSE, Excepcion(paso))

\* Column.like('%termino%') on a value: termino occurs in texto.  Neither %
\* nor _ occurs in the terms of the model.
Contiene(texto, termino) ==
  \E i \in 1..(Len(texto) + 1) :
    /\ i + Len(termino) - 1 <= Len(texto)
    /\ SubSeq(texto, i, i + Len(termino) - 1) = termino

\* Names a class of models.py answers to: its columns and relationships.
AtributosLibro == {"ISBN", "Título", "Publicación", "FechaPublicación", "IdCategoría",
                   "IdAutor", "OtrosDetalles", "Disponible", "autor", "categoria", "prestamos"}
AtributosAutor == {"IdAutor", "Nombres", "Apellidos", "Nacionalidad", "OtrosDetalles",
                   "libros", "nombre_completo"}

\* The names buscar reads off Libro and off Autor to build its or_(...).
BuscarLeeDeLibro == {"Titulo", "ISBN"}
BuscarLeeDeAutor == {"Nombres", "Apellidos"}

\* What the column of a row named atributo holds.
ValorLibro(fila, atributo) == IF atributo = "ISBN" THEN fila.ISBN ELSE fila.Titulo
ValorAutor(autor, atributo) == IF atributo = "Nombres" THEN autor.Nombres ELSE autor.Apellidos

\* query(Libro).join(Autor).filter(or_(...like...)).all().  Reading a name the
\* class does not have raises AttributeError inside the try, and the except
\* block returns [].
buscar(tl, termino_busqueda, falla) ==
  IF falla \in PasosConsulta THEN <<>>
  ELSE IF ~(BuscarLeeDeLibro \subseteq AtributosLibro /\ BuscarLeeDeAutor \subseteq AtributosAutor)
    THEN <<>>
  ELSE LET coincide(fila) ==
             \/ \E a \in BuscarLeeDeLibro : Contiene(ValorLibro(fila, a), termino_busqueda)
             \/ /\ fila.IdAutor \in 1..Len(Autores)
                /\ \E a \in BuscarLeeDeAutor :
                     Contiene(ValorAutor(Autores[fila.IdAutor], a), termino_busqueda)
       IN SelectSeq(FilasLibros(tl), coincide)

(***************************************************************************)
(* Threads, controllers and sessions.  A call runs on a thread one        *)
(* statement at a time: the test, the creation, the assignment and the     *)
(* read of get_session, each query, each read of an attribute of a loaded  *)
(* object, each assignment, session.add, the commit, the except block, and *)
(* the test, the close and the assignment of close_session.  A controller  *)
(* keeps the session it opened in self.session.  A session keeps the       *)
(* objects it loaded (its identity map) with the values assigned to them,  *)
(* and the objects added to it; commit and rollback expire them, close     *)
(* detaches them.  A local variable keeps its object whatever happens to   *)
(* the session.                                                            *)
(***************************************************************************)
Hilos == 1..NumHilos
SinSesion == 0
SinObjeto == 0
Vacio == [x \in {} |-> x]

\* A session as SessionLocal() makes it.  cerrada tells that close() was the
\* last call made on it.  libros and prestamos hold, under a number each,
\* the objects the session loaded; nuevos holds the objects added to it.
SesionNueva == [cerrada |-> FALSE, libros |-> Vacio, prestamos |-> Vacio, nuevos |-> <<>>]

\* An object of a session is a record: clave is its primary key, valor the
\* attribute the controller assigns (Disponible of a Libro, FechaDevolución
\* of a Prestamo), base the value loaded for it.  unido tells that the object
\* is attached to its session, exp that a commit or rollback expired it,
\* asignado that valor was assigned since the object was loaded or expired,
\* conBase that the loaded value is known, de holds the calls that assigned.

\* An expired object is loaded again from its row, whose value is v; a value
\* assigned since the expiry is kept.
Refrescado(o, v) ==
  IF ~o.exp THEN o
  ELSE IF o.asignado THEN [o EXCEPT !.exp = FALSE]
  ELSE [o EXCEPT !.exp = FALSE, !.conBase = TRUE, !.base = v, !.valor = v]

\* An UPDATE is pending when the value assigned differs from the one loaded,
\* or when the object was expired when it was assigned.
Sucio(o) == o.asignado /\ (~o.conBase \/ o.valor # o.base)

\* The assigned attribute can be read without the database when it was
\* loaded or assigned; the other attributes when the object is not expired.
ValorPresente(o) == ~o.exp \/ o.asignado

\* The identity map: the attached object with primary key clave, if any.
Objeto(m, clave) ==
  LET unidos == {i \in DOMAIN m : m[i].unido /\ m[i].clave = clave}
  IN IF unidos = {} THEN SinObjeto ELSE CHOOSE i \in unidos : TRUE

\* A query that gives the row with key clave and value v: the object of the
\* identity map, refreshed if expired, or else a new object under the first
\* number no object of the session has.
Consultado(m, clave, v) ==
  LET libres == {n \in 1..(Cardinality(DOMAIN m) + 1) : n \notin DOMAIN m}
      nuevo == CHOOSE n \in libres : \A k \in libres : n <= k
  IN IF Objeto(m, clave) # SinObjeto
       THEN [m EXCEPT ![Objeto(m, clave)] = Refrescado(@, v)]
       ELSE (nuevo :> [clave |-> clave, unido |-> TRUE, exp |-> FALSE, asignado |-> FALSE,
                       conBase |-> TRUE, base |-> v, valor |-> v, de |-> {}]) @@ m

\* Variant: close() leaves the session as it is.
SesionCerrada_Abierta(S) == S

\* session.close(): every object is expunged, what was pending is dropped.
SesionCerrada(S) ==
  [cerrada |-> TRUE,
   libros |-> [i \in DOMAIN S.libros |-> [S.libros[i] EXCEPT !.unido = FALSE]],
   prestamos |-> [i \in DOMAIN S.prestamos |-> [S.prestamos[i] EXCEPT !.unido = FALSE]],
   nuevos |-> <<>>]

\* After commit() or rollback() every attached object is expired and nothing
\* is pending; the objects stay attached.
SesionLimpia(S) ==
  LET expirado(o, nulo) ==
        IF o.unido
          THEN [o EXCEPT !.exp = TRUE, !.asignado = FALSE, !.conBase = FALSE, !.base = nulo,
                         !.valor = nulo, !.de = {}]
        ELSE o
  IN [cerrada |-> FALSE,
      libros |-> [i \in DOMAIN S.libros |-> expirado(S.libros[i], FALSE)],
      prestamos |-> [i \in DOMAIN S.prestamos |-> expirado(S.prestamos[i], NULL)],
      nuevos |-> <<>>]

\* A thread with no call in progress.  llamada numbers the call, ses is the
\* local variable session, nueva the session db.get_session() returned
\* before it is assigned to self.session, libro and prestamo the objects the
\* local variables of those names hold, filas the objects of the list a read
\* operation built, lista and legible what the caller reads off that list
\* (legible is FALSE when an object of it is expired and detached),
\* confirmado the mutations of the call that reached the tables, traza the
\* persistence steps the call has run.
HiloLibre ==
  [pc |-> "libre", llamada |-> 0, op |-> "ninguna", ctl |-> 0, isbn |-> "", usuario_id |-> 0,
   id_prestamo |-> 0, falla |-> Ninguna, rollbackFalla |-> FALSE, ses |-> SinSesion,
   nueva |-> SinSesion, libro |-> SinObjeto, prestamo |-> SinObjeto, filas |-> <<>>,
   retorno |-> Retorna(FALSE, ""), lista |-> <<>>, legible |-> TRUE,
   confirmado |-> {}, traza |-> <<>>]

OpsEscritura == {"crear_prestamo", "devolver_libro"}
Reposo == {"libre", "retornado"}

\* Variant: every call opens a session and keeps it in self.session.
get_session_SiempreNueva(ctl, ses, c) ==
  [controlador |-> [ctl EXCEPT ![c] = Len(ses) + 1],
   sesiones |-> Append(ses, SesionNueva), sesion |-> Len(ses) + 1]

\* if not self.session: self.session = db.get_session(); return self.session
get_session(ctl, ses, c) ==
  IF ctl[c] = SinSesion
    THEN [controlador |-> [ctl EXCEPT ![c] = Len(ses) + 1],
          sesiones |-> Append(ses, SesionNueva), sesion |-> Len(ses) + 1]
    ELSE [controlador |-> ctl, sesiones |-> ses, sesion |-> ctl[c]]

\* if self.session: self.session.close(); self.session = None
close_session(ctl, ses, c) ==
  IF ctl[c] # SinSesion
    THEN [controlador |-> [ctl EXCEPT ![c] = SinSesion],
          sesiones |-> [ses EXCEPT ![ctl[c]] = SesionCerrada(@)]]
    ELSE [controlador |-> ctl, sesiones |-> ses]

\* query(Libro).filter(ISBN == isbn).first() through session S.
CargarLibro(S, tl, isbn) ==
  IF isbn \in DOMAIN tl
    THEN [S EXCEPT !.cerrada = FALSE, !.libros = Consultado(@, isbn, tl[isbn].Disponible)]
    ELSE [S EXCEPT !.cerrada = FALSE]

\* query(Prestamo).filter(IdPrestamo == id_prestamo).first() through session S.
CargarPrestamo(S, tp, id_prestamo) ==
  IF id_prestamo \in 1..Len(tp)
    THEN [S EXCEPT !.cerrada = FALSE,
                   !.prestamos = Consultado(@, id_prestamo, tp[id_prestamo].FechaDevolucion)]
    ELSE [S EXCEPT !.cerrada = FALSE]

\* libro.Disponible = valor on object i of session S.
AsignarDisponible(S, i, valor, h) ==
  [S EXCEPT !.libros[i] = [@ EXCEPT !.valor = valor, !.asignado = TRUE, !.de = @ \cup {h}]]

\* prestamo.FechaDevolución = fecha on object i of session S.
AsignarDevolucion(S, i, fecha, h) ==
  [S EXCEPT !.prestamos[i] = [@ EXCEPT !.valor = fecha, !.asignado = TRUE, !.de = @ \cup {h}]]

\* session.add(nuevo_prestamo)
Agregar(S, isbn, usuario_id, ahora1, ahora2, h) ==
  [S EXCEPT !.cerrada = FALSE,
            !.nuevos = Append(@, [isbn |-> isbn, usuario_id |-> usuario_id,
                                  ahora1 |-> ahora1, ahora2 |-> ahora2, de |-> h])]

\* The flush of session.commit(): the pending UPDATEs and INSERTs of the
\* objects attached to S, of whichever thread, in one transaction.
VolcarLibros(S, tl) ==
  [k \in DOMAIN tl |->
     LET i == Objeto(S.libros, k)
     IN IF i # SinObjeto /\ Sucio(S.libros[i])
          THEN [tl[k] EXCEPT !.Disponible = S.libros[i].valor]
        ELSE tl[k]]
VolcarPrestamos(S, tp) ==
  [k \in 1..Len(tp) |->
     LET i == Objeto(S.prestamos, k)
     IN IF i # SinObjeto /\ Sucio(S.prestamos[i])
          THEN [tp[k] EXCEPT !.FechaDevolucion = S.prestamos[i].valor]
        ELSE tp[k]]
  \o [k \in 1..Len(S.nuevos) |->
        NuevoPrestamo(Len(tp) + k, S.nuevos[k].isbn, S.nuevos[k].usuario_id,
                      S.nuevos[k].ahora1, S.nuevos[k].ahora2)]

\* The mutations call h made that a flush of S writes.
Volcados(S, h) ==
  {"libro" : i \in {j \in DOMAIN S.libros :
                      S.libros[j].unido /\ Sucio(S.libros[j]) /\ h \in S.libros[j].de}}
    \cup {"prestamo" : i \in {j \in DOMAIN S.prestamos :
                                S.prestamos[j].unido /\ Sucio(S.prestamos[j])
                                  /\ h \in S.prestamos[j].de}}
    \cup {"prestamo" : k \in {j \in 1..Len(S.nuevos) : S.nuevos[j].de = h}}

(***************************************************************************)
(* State machine.  ultimo is the last call and what it gave its caller.    *)
(***************************************************************************)
SinLlamada == [op |-> "ninguna", isbn |-> "", usuario_id |-> 0, id_prestamo |-> 0,
               nombre |-> "", apellido |-> "", email |-> "", ctl |-> 0, previa |-> 0, sesion |-> 0,
               termino |-> "", fallo |-> Ninguna, retorno |-> Retorna(FALSE, ""),
               lista |-> <<>>]

\* Every book available (Column default=True), no loan; user 2 is inactive.
Init ==
  /\ libros = [i \in ISBNsIniciales |->
                 [Titulo |-> "Título " \o i, IdAutor |-> AutorDeISBN(i), Disponible |-> TRUE]]
  /\ usuarios = [u \in 1..NumUsuarios |->
                   [Nombres |-> "Nombre", Apellidos |-> "Apellido",
                    CorreoElectronico |-> "usuario@biblioteca.example", UsuarioActivo |-> (u # 2)]]
  /\ prestamos = <<>>
  /\ reloj = 1
  /\ ultimo = SinLlamada
  /\ hilos = [h \in Hilos |-> HiloLibre]
  /\ controlador = [c \in Hilos |-> SinSesion]
  /\ sesiones = <<>>
  /\ llamadas = 0

ISBNsEntrada == ISBNsIniciales \cup {ISBNInexistente}
UsuariosEntrada == 1..(NumUsuarios + 1)
PrestamosEntrada == 1..(MaxPrestamos + 1)
Avances == 0..MaxAvance

\* The wait that takes a loan past its due date, and the instants the clock
\* shows: the first ones, and the first ones after such a wait.
SaltoVencido == timedelta(DiasPrestamo) + 1
InstantesValidos == (1..MaxReloj) \cup {t + SaltoVencido : t \in 1..MaxReloj}

CrearPrestamo(isbn, usuario_id, falla, rollbackFalla, avance1, avance2) ==
  LET r == crear_prestamo(libros, usuarios, prestamos, reloj, isbn, usuario_id,
                          falla, rollbackFalla, avance1, avance2)
  IN /\ Len(r.prestamos) <= MaxPrestamos
     /\ r.reloj \in InstantesValidos
     /\ libros' = r.libros
     /\ prestamos' = r.prestamos
     /\ reloj' = r.reloj
     /\ ultimo' = [op |-> "crear_prestamo", isbn |-> isbn, usuario_id |-> usuario_id,
                   id_prestamo |-> 0, nombre |-> "", apellido |-> "", email |-> "", ctl |-> 0, previa |-> 0, sesion |-> 0,
                   termino |-> "", fallo |-> r.fallo,
                   retorno |-> r.retorno, lista |-> <<>>]
     /\ UNCHANGED <<usuarios, hilos, controlador, sesiones, llamadas>>

DevolverLibro(id_prestamo, falla, rollbackFalla, avance) ==
  LET r == devolver_libro(libros, prestamos, reloj, id_prestamo, falla, rollbackFalla, avance)
  IN /\ r.reloj \in InstantesValidos
     /\ libros' = r.libros
     /\ prestamos' = r.prestamos
     /\ reloj' = r.reloj
     /\ ultimo' = [op |-> "devolver_libro", isbn |-> "", usuario_id |-> 0,
                   id_prestamo |-> id_prestamo, nombre |-> "", apellido |-> "", email |-> "", ctl |-> 0, previa |-> 0, sesion |-> 0,
                   termino |-> "", fallo |-> r.fallo,
                   retorno |-> r.retorno, lista |-> <<>>]
     /\ UNCHANGED <<usuarios, hilos, controlador, sesiones, llamadas>>

\* A rollback is reached only from an except block, and get_session is called
\* before the try.
FallasDe(pasos) ==
  {<<Ninguna, FALSE>>, <<"get_session", FALSE>>}
    \cup ((pasos \ {"get_session"}) \X BOOLEAN)

\* The store answers every request; the clock stands still during the run.
Next ==
  \/ \E isbn \in ISBNsEntrada, usuario_id \in UsuariosEntrada :
       CrearPrestamo(isbn, usuario_id, Ninguna, FALSE, 0, 0)
  \/ \E id_prestamo \in PrestamosEntrada :
       DevolverLibro(id_prestamo, Ninguna, FALSE, 0)

Spec == Init /\ [][Next]_vars

\* Any persistence step of a call may raise, and so may the rollback.
NextFallas ==
  \/ \E isbn \in ISBNsEntrada, usuario_id \in UsuariosEntrada, f \in FallasDe(PasosCrear) :
       CrearPrestamo(isbn, usuario_id, f[1], f[2], 0, 0)
  \/ \E id_prestamo \in PrestamosEntrada, f \in FallasDe(PasosDevolver) :
       DevolverLibro(id_prestamo, f[1], f[2], 0)

SpecFallas == Init /\ [][NextFallas]_vars

\* The store answers every request and the clock advances between readings.
\* The calls are about one book and one user, and about ids no row has.
ISBNsReloj == {CatalogoISBN[1], ISBNInexistente}
UsuariosReloj == {1, NumUsuarios + 1}

NextReloj ==
  \/ \E isbn \in ISBNsReloj, usuario_id \in UsuariosReloj, a1 \in Avances, a2 \in Avances :
       CrearPrestamo(isbn, usuario_id, Ninguna, FALSE, a1, a2)
  \/ \E id_prestamo \in PrestamosEntrada, a \in Avances :
       DevolverLibro(id_prestamo, Ninguna, FALSE, a)

SpecReloj == Init /\ [][NextReloj]_vars

\* Loans that are returned at once or after their due date.
NextVencido ==
  \/ \E isbn \in ISBNsEntrada, usuario_id \in UsuariosReloj :
       CrearPrestamo(isbn, usuario_id, Ninguna, FALSE, 0, 0)
  \/ \E id_prestamo \in PrestamosEntrada, a \in {0, 1, SaltoVencido} :
       DevolverLibro(id_prestamo, Ninguna, FALSE, a)

SpecVencido == Init /\ [][NextVencido]_vars

\* A row of tblLibros is deleted by something other than the controllers,
\* which never delete: the case the "if libro:" of devolver_libro provides for.
BorrarLibroExterno(isbn) ==
  /\ isbn \in DOMAIN libros
  /\ libros' = [i \in DOMAIN libros \ {isbn} |-> libros[i]]
  /\ ultimo' = [SinLlamada EXCEPT !.op = "borrar_libro_externo", !.isbn = isbn]
  /\ UNCHANGED <<usuarios, prestamos, reloj, hilos, controlador, sesiones, llamadas>>

\* Loans and returns, one call at a time, over a catalogue that loses rows.
\* The loans are about two books and one user, and about ids no row has.
ISBNsAusente == {CatalogoISBN[1], CatalogoISBN[2], ISBNInexistente}
UsuariosAusente == {1, NumUsuarios + 1}

NextLibroAusente ==
  \/ \E isbn \in ISBNsAusente, usuario_id \in UsuariosAusente :
       CrearPrestamo(isbn, usuario_id, Ninguna, FALSE, 0, 0)
  \/ \E id_prestamo \in PrestamosEntrada :
       DevolverLibro(id_prestamo, Ninguna, FALSE, 0)
  \/ \E isbn \in ISBNsAusente : BorrarLibroExterno(isbn)

SpecLibroAusente == Init /\ [][NextLibroAusente]_vars

\* UsuarioController.crear(nombre, apellido, email)
CrearUsuario(nombre, apellido, email, falla, rollbackFalla) ==
  LET r == crear_usuario(usuarios, nombre, apellido, email, falla, rollbackFalla)
  IN /\ Len(r.usuarios) <= NumUsuarios + MaxAltas
     /\ usuarios' = r.usuarios
     /\ ultimo' = [SinLlamada EXCEPT !.op = "crear_usuario", !.nombre = nombre,
                                     !.apellido = apellido, !.email = email,
                                     !.fallo = r.fallo, !.retorno = r.retorno]
     /\ UNCHANGED <<libros, prestamos, reloj, hilos, controlador, sesiones, llamadas>>

\* Who registers, and who asks for loans once users are registered: user 1
\* and the ids the new users get.
AltasEntrada == {<<"Estudiante", "Maestría", "estudiante100@maestria.com">>}
UsuariosAlta == {1} \cup ((NumUsuarios + 1)..(NumUsuarios + MaxAltas))

\* Registrations, loans and returns, one call at a time; the store answers.
NextUsuarios ==
  \/ \E a \in AltasEntrada : CrearUsuario(a[1], a[2], a[3], Ninguna, FALSE)
  \/ \E isbn \in ISBNsEntrada, usuario_id \in UsuariosAlta :
       CrearPrestamo(isbn, usuario_id, Ninguna, FALSE, 0, 0)
  \/ \E id_prestamo \in PrestamosEntrada :
       DevolverLibro(id_prestamo, Ninguna, FALSE, 0)

SpecUsuarios == Init /\ [][NextUsuarios]_vars

\* The same, with the store failing at any step of a registration.
NextUsuariosFallas ==
  \/ \E a \in AltasEntrada, f \in FallasDe(PasosUsuario) :
       CrearUsuario(a[1], a[2], a[3], f[1], f[2])
  \/ \E isbn \in ISBNsEntrada, usuario_id \in UsuariosAlta :
       CrearPrestamo(isbn, usuario_id, Ninguna, FALSE, 0, 0)
  \/ \E id_prestamo \in PrestamosEntrada :
       DevolverLibro(id_prestamo, Ninguna, FALSE, 0)

SpecUsuariosFallas == Init /\ [][NextUsuariosFallas]_vars

\* Variant: a read gives every book back its Disponible flag and commits.
Consulta_Escribe(op, termino, falla, lista) ==
  /\ ultimo' = [SinLlamada EXCEPT !.op = op, !.termino = termino, !.fallo = falla,
                                  !.retorno = IF falla \in PasosConsulta
                                                THEN ManejarErrorLectura(falla)
                                                ELSE Retorna(TRUE, ""),
                                  !.lista = lista]
  /\ libros' = [b \in DOMAIN libros |-> [libros[b] EXCEPT !.Disponible = TRUE]]
  /\ UNCHANGED <<usuarios, prestamos, reloj, hilos, controlador, sesiones, llamadas>>

\* The read operations: no one of them assigns to an object or calls
\* commit(), and close_session() discards the session; the tables stay as
\* they are.
Consulta(op, termino, falla, lista) ==
  /\ ultimo' = [op |-> op, isbn |-> "", usuario_id |-> 0, id_prestamo |-> 0,
                nombre |-> "", apellido |-> "", email |-> "", ctl |-> 0, previa |-> 0, sesion |-> 0,
                termino |-> termino, fallo |-> falla,
                retorno |-> IF falla \in PasosConsulta THEN ManejarErrorLectura(falla)
                            ELSE Retorna(TRUE, ""),
                lista |-> lista]
  /\ UNCHANGED <<libros, usuarios, prestamos, reloj, hilos, controlador, sesiones, llamadas>>

ObtenerPrestamosActivos(falla) ==
  Consulta("obtener_prestamos_activos", "", falla,
           obtener_prestamos_activos(libros, usuarios, prestamos, falla))

ObtenerDisponibles(falla) ==
  Consulta("obtener_disponibles", "", falla, obtener_disponibles(libros, falla))

Buscar(termino, falla) ==
  Consulta("buscar", termino, falla, buscar(libros, termino, falla))

ObtenerTodosLibros(falla) ==
  Consulta("obtener_todos_libros", "", falla, obtener_todos_libros(libros, falla))

ObtenerTodosUsuarios(falla) ==
  Consulta("obtener_todos_usuarios", "", falla, obtener_todos_usuarios(usuarios, falla))

\* LibroController.obtener_por_id(libro_id)
ObtenerPorId(libro_id, falla) ==
  /\ ultimo' = [SinLlamada EXCEPT !.op = "obtener_por_id", !.isbn = libro_id, !.fallo = falla,
                                  !.retorno = IF falla \in PasosConsulta
                                                THEN ManejarErrorLectura(falla)
                                                ELSE Retorna(TRUE, ""),
                                  !.lista = obtener_por_id(libros, libro_id, falla)]
  /\ UNCHANGED <<libros, usuarios, prestamos, reloj, hilos, controlador, sesiones, llamadas>>

\* UsuarioController.buscar_por_id(usuario_id)
BuscarPorId(usuario_id, falla) ==
  /\ ultimo' = [SinLlamada EXCEPT !.op = "buscar_por_id", !.usuario_id = usuario_id,
                                  !.fallo = falla,
                                  !.retorno = IF falla \in PasosConsulta
                                                THEN ManejarErrorLectura(falla)
                                                ELSE Retorna(TRUE, ""),
                                  !.lista = buscar_por_id(usuarios, usuario_id, falla)]
  /\ UNCHANGED <<libros, usuarios, prestamos, reloj, hilos, controlador, sesiones, llamadas>>

TerminosEntrada == {"García", "978-0001", "Título", "zzz"}

\* Loans, returns and reads, one call at a time; the store answers every request.
NextConsultas ==
  \/ Next
  \/ ObtenerPrestamosActivos(Ninguna)
  \/ ObtenerDisponibles(Ninguna)
  \/ \E termino \in TerminosEntrada : Buscar(termino, Ninguna)

SpecConsultas == Init /\ [][NextConsultas]_vars

\* Loans and returns against a store that answers, and the five read
\* operations against a store that may fail when the session is opened or
\* when the query runs.
FallasConsulta == PasosConsulta \cup {Ninguna}

NextConsultasFallas ==
  \/ Next
  \/ \E falla \in FallasConsulta : ObtenerTodosLibros(falla)
  \/ \E falla \in FallasConsulta : ObtenerDisponibles(falla)
  \/ \E falla \in FallasConsulta : Buscar("García", falla)
  \/ \E falla \in FallasConsulta : ObtenerPrestamosActivos(falla)
  \/ \E falla \in FallasConsulta : ObtenerTodosUsuarios(falla)

SpecConsultasFallas == Init /\ [][NextConsultasFallas]_vars

\* The seven read operations of the three controllers.
OpsLectura == {"obtener_todos_libros", "obtener_disponibles", "buscar", "obtener_por_id",
               "obtener_prestamos_activos", "obtener_todos_usuarios", "buscar_por_id"}

\* Loans and returns against a store that answers, and every read operation
\* against a store that may fail.
NextLecturas ==
  \/ \E isbn \in ISBNsEntrada, usuario_id \in UsuariosReloj :
       CrearPrestamo(isbn, usuario_id, Ninguna, FALSE, 0, 0)
  \/ \E id_prestamo \in PrestamosEntrada : DevolverLibro(id_prestamo, Ninguna, FALSE, 0)
  \/ \E falla \in FallasConsulta : ObtenerTodosLibros(falla)
  \/ \E falla \in FallasConsulta : ObtenerDisponibles(falla)
  \/ \E falla \in FallasConsulta : Buscar("García", falla)
  \/ \E falla \in FallasConsulta : ObtenerPrestamosActivos(falla)
  \/ \E falla \in FallasConsulta : ObtenerTodosUsuarios(falla)
  \/ \E libro_id \in ISBNsEntrada, falla \in FallasConsulta : ObtenerPorId(libro_id, falla)
  \/ \E usuario_id \in UsuariosEntrada, falla \in FallasConsulta : BuscarPorId(usuario_id, falla)

SpecLecturas == Init /\ [][NextLecturas]_vars

(***************************************************************************)
(* The steps of a call on a thread.                                        *)
(***************************************************************************)
EsCrearOp(t) == t.op = "crear_prestamo"

\* A route calls a method of controller c on thread h.
Llamar(h, c, op, isbn, usuario_id, id_prestamo, falla, rollbackFalla) ==
  /\ hilos[h].pc \in Reposo
  /\ llamadas < MaxLlamadas
  /\ llamadas' = llamadas + 1
  /\ hilos' = [hilos EXCEPT ![h] =
                 [HiloLibre EXCEPT !.pc = "gs43", !.llamada = llamadas + 1, !.op = op,
                                   !.ctl = c, !.isbn = isbn, !.usuario_id = usuario_id,
                                   !.id_prestamo = id_prestamo, !.falla = falla,
                                   !.rollbackFalla = rollbackFalla]]
  /\ UNCHANGED <<libros, usuarios, prestamos, reloj, ultimo, controlador, sesiones>>

\* A statement inside the try raises: control goes to the except block.
AlExcept(t, paso) == [t EXCEPT !.pc = "except", !.falla = paso, !.traza = Append(@, paso)]

\* A return inside the try or the except block: control goes to the finally
\* block, that is to line 53 of close_session.
AlFinally(t, r) == [t EXCEPT !.pc = "cs53", !.retorno = r]

\* The call leaves the method: its local variables are gone.  lista is what
\* the caller reads off the list a read operation returned: the values the
\* objects hold in memory, and for an expired object that is still attached
\* the row it is loaded from again.  Reading an attribute of an object that
\* is expired and detached raises: legible is FALSE then.
Retornado(t, ss) ==
  LET leida(f) ==
        LET po == ss[t.ses].prestamos[f.prestamo]
            p == prestamos[po.clave]
            fl == FilaLibro(libros, p.ISBN)
        IN [prestamo |-> [p EXCEPT !.FechaDevolucion = IF ValorPresente(po) THEN po.valor ELSE @],
            libro |-> IF f.libro = SinObjeto THEN fl
                      ELSE LET lo == ss[t.ses].libros[f.libro]
                           IN [fl EXCEPT !.Disponible = IF ValorPresente(lo) THEN lo.valor ELSE @],
            usuario |-> usuarios[p.IdUsuario]]
      legible(f) ==
        LET po == ss[t.ses].prestamos[f.prestamo]
        IN /\ ~po.exp \/ po.unido
           /\ f.libro # SinObjeto =>
                (~ss[t.ses].libros[f.libro].exp \/ ss[t.ses].libros[f.libro].unido)
  IN [t EXCEPT !.pc = "retornado",
               !.lista = [n \in 1..Len(t.filas) |-> leida(t.filas[n])],
               !.legible = \A n \in 1..Len(t.filas) : legible(t.filas[n]),
               !.filas = <<>>, !.libro = SinObjeto, !.prestamo = SinObjeto, !.nueva = SinSesion]

\* The sessions without the objects nothing refers to any more: an object
\* stays while it is attached to its session or while a call in progress
\* holds it in a local variable or in its list.
Recogidas(ss, hs) ==
  [s \in DOMAIN ss |->
     LET vivos == {k \in Hilos : hs[k].pc \notin Reposo /\ hs[k].ses = s}
         rl == {hs[k].libro : k \in vivos}
                 \cup UNION {{hs[k].filas[n].libro : n \in DOMAIN hs[k].filas} : k \in vivos}
         rp == {hs[k].prestamo : k \in vivos}
                 \cup UNION {{hs[k].filas[n].prestamo : n \in DOMAIN hs[k].filas} : k \in vivos}
         ml == ss[s].libros
         mp == ss[s].prestamos
     IN [ss[s] EXCEPT !.libros = [i \in {j \in DOMAIN ml : ml[j].unido \/ j \in rl} |-> ml[i]],
                      !.prestamos = [i \in {j \in DOMAIN mp : mp[j].unido \/ j \in rp} |-> mp[i]]]]

\* session = self.get_session(): before the try in crear_prestamo and
\* devolver_libro, inside it in the read operations.  One step each for the
\* test of line 43, the call db.get_session() of line 44, the assignment to
\* self.session of line 44, and the read of self.session of line 45.
\* db.get_session() is called, and can raise, only when the test found no
\* session.
Abrir(h) ==
  LET t == hilos[h]
      c == t.ctl
  IN /\ t.pc \in {"gs43", "gs44", "gs44b", "gs45"}
     /\ hilos' = [hilos EXCEPT ![h] =
          CASE t.pc = "gs43" ->
                 [t EXCEPT !.pc = IF controlador[c] = SinSesion THEN "gs44" ELSE "gs45"]
            [] t.pc = "gs44" ->
                 IF t.falla = "get_session"
                   THEN IF t.op \in OpsEscritura
                          THEN Retornado([t EXCEPT !.retorno = Lanza(Excepcion("get_session")),
                                                   !.traza = Append(@, "get_session")], sesiones)
                          ELSE [t EXCEPT !.pc = "cs53", !.traza = Append(@, "get_session")]
                   ELSE [t EXCEPT !.pc = "gs44b", !.nueva = Len(sesiones) + 1,
                                  !.traza = Append(@, "get_session")]
            [] t.pc = "gs44b" -> [t EXCEPT !.pc = "gs45", !.nueva = SinSesion]
            [] t.pc = "gs45" ->
                 [t EXCEPT !.ses = controlador[c],
                           !.pc = IF t.op = "crear_prestamo" THEN "q81"
                                  ELSE IF t.op = "devolver_libro" THEN "q144"
                                  ELSE "consultar"]]
     /\ sesiones' = IF t.pc = "gs44" /\ t.falla # "get_session"
                      THEN Append(sesiones, SesionNueva)
                      ELSE sesiones
     /\ controlador' = IF t.pc = "gs44b" THEN [controlador EXCEPT ![c] = t.nueva]
                       ELSE controlador
     /\ UNCHANGED <<libros, usuarios, prestamos, reloj, ultimo, llamadas>>

\* Line 81 and lines 83-84 of crear_prestamo: the query for the book through
\* the session the call got, which is None when another call emptied
\* self.session before line 45 read it.
ConsultarLibro(t) ==
  IF t.ses = SinSesion THEN [hilo |-> AlExcept(t, "session.query"), sesion |-> SesionNueva]
  ELSE IF t.falla = "query_libro"
    THEN [hilo |-> AlExcept(t, "query_libro"), sesion |-> sesiones[t.ses]]
  ELSE LET S1 == CargarLibro(sesiones[t.ses], libros, t.isbn)
           t1 == [t EXCEPT !.libro = Objeto(S1.libros, t.isbn), !.traza = Append(@, "query")]
       IN [hilo |-> IF t1.libro = SinObjeto
                      THEN AlFinally(t1, Retorna(FALSE, MsgLibroNoEncontrado))
                      ELSE [t1 EXCEPT !.pc = "l87"],
           sesion |-> S1]

\* Line 87: if not libro.Disponible.  The value the object holds in memory is
\* read; an expired object is loaded again when it is attached, and the read
\* raises when it is detached.
LeerDisponible(t) ==
  LET S == sesiones[t.ses]
      o == S.libros[t.libro]
  IN IF ~ValorPresente(o) /\ ~o.unido
       THEN [hilo |-> AlExcept(t, "libro.Disponible"), sesion |-> S]
     ELSE LET S1 == IF ValorPresente(o) THEN S
                    ELSE [S EXCEPT !.cerrada = FALSE,
                                   !.libros[t.libro] = Refrescado(o, libros[o.clave].Disponible)]
          IN [hilo |-> [t EXCEPT !.pc = IF S1.libros[t.libro].valor THEN "q91" ELSE "l88"],
              sesion |-> S1]

\* Line 88: the message reads libro.Título.
LeerTitulo(t) ==
  LET S == sesiones[t.ses]
      o == S.libros[t.libro]
  IN IF o.exp /\ ~o.unido
       THEN [hilo |-> AlExcept(t, "libro.Título"), sesion |-> S]
     ELSE [hilo |-> AlFinally(t, Retorna(FALSE, MsgYaPrestado(libros[o.clave].Titulo))),
           sesion |-> IF ~o.exp THEN S
                      ELSE [S EXCEPT !.cerrada = FALSE,
                                     !.libros[t.libro] = Refrescado(o, libros[o.clave].Disponible)]]

\* Lines 91-93: the query for the user.
ConsultarUsuario(t) ==
  LET S == sesiones[t.ses]
  IN IF t.falla = "query_usuario" THEN [hilo |-> AlExcept(t, "query_usuario"), sesion |-> S]
     ELSE LET t1 == [t EXCEPT !.traza = Append(@, "query")]
          IN [hilo |-> IF UsuarioExiste(usuarios, t.usuario_id) THEN [t1 EXCEPT !.pc = "a107"]
                       ELSE AlFinally(t1, Retorna(FALSE, MsgUsuarioNoEncontrado)),
              sesion |-> [S EXCEPT !.cerrada = FALSE]]

\* Lines 144-148 of devolver_libro: the query for the loan.
ConsultarPrestamo(t) ==
  IF t.ses = SinSesion THEN [hilo |-> AlExcept(t, "session.query"), sesion |-> SesionNueva]
  ELSE IF t.falla = "query_prestamo"
    THEN [hilo |-> AlExcept(t, "query_prestamo"), sesion |-> sesiones[t.ses]]
  ELSE LET S1 == CargarPrestamo(sesiones[t.ses], prestamos, t.id_prestamo)
           t1 == [t EXCEPT !.prestamo = Objeto(S1.prestamos, t.id_prestamo),
                           !.traza = Append(@, "query")]
       IN [hilo |-> IF t1.prestamo = SinObjeto
                      THEN AlFinally(t1, Retorna(FALSE, MsgPrestamoNoEncontrado))
                      ELSE [t1 EXCEPT !.pc = "l151"],
           sesion |-> S1]

\* Lines 151-152: if prestamo.FechaDevolución.
LeerDevolucion(t) ==
  LET S == sesiones[t.ses]
      o == S.prestamos[t.prestamo]
  IN IF ~ValorPresente(o) /\ ~o.unido
       THEN [hilo |-> AlExcept(t, "prestamo.FechaDevolución"), sesion |-> S]
     ELSE LET S1 == IF ValorPresente(o) THEN S
                    ELSE [S EXCEPT !.cerrada = FALSE,
                                   !.prestamos[t.prestamo] =
                                      Refrescado(o, prestamos[o.clave].FechaDevolucion)]
          IN [hilo |-> IF S1.prestamos[t.prestamo].valor # NULL
                         THEN AlFinally(t, Retorna(FALSE, MsgYaDevuelto))
                         ELSE [t EXCEPT !.pc = "a155"],
              sesion |-> S1]

\* The queries and checks of crear_prestamo (lines 81-93) and of
\* devolver_libro (lines 144-152), one step for each query and for each read
\* of an attribute of a loaded object.
Validar(h) ==
  LET t == hilos[h]
      r == CASE t.pc = "q81" -> ConsultarLibro(t)
             [] t.pc = "l87" -> LeerDisponible(t)
             [] t.pc = "l88" -> LeerTitulo(t)
             [] t.pc = "q91" -> ConsultarUsuario(t)
             [] t.pc = "q144" -> ConsultarPrestamo(t)
             [] t.pc = "l151" -> LeerDevolucion(t)
  IN /\ t.pc \in {"q81", "l87", "l88", "q91", "q144", "l151"}
     /\ hilos' = [hilos EXCEPT ![h] = r.hilo]
     /\ sesiones' = IF t.ses = SinSesion THEN sesiones
                    ELSE [sesiones EXCEPT ![t.ses] = r.sesion]
     /\ UNCHANGED <<libros, usuarios, prestamos, reloj, ultimo, controlador, llamadas>>

\* crear_prestamo: libro.Disponible = False (line 107) and session.add (line
\* 110), with the Prestamo of lines 97-103.  devolver_libro: the date (line
\* 155), the book query (line 159), libro.Disponible = True (lines 160-161).
\* One step for each, and two for line 159: the read of prestamo.ISBN, which
\* loads an expired loan again and raises when the loan is expired and
\* detached, and then the query of the book.  An assignment changes the
\* object in memory; it reaches a session only while the object is attached
\* to it.
Mutar(h) ==
  LET t == hilos[h]
      S == sesiones[t.ses]
      o == S.prestamos[t.prestamo]
      isbn == prestamos[o.clave].ISBN
      S1 == IF ~o.exp THEN S
            ELSE [S EXCEPT !.cerrada = FALSE,
                           !.prestamos[t.prestamo] =
                              Refrescado(o, prestamos[o.clave].FechaDevolucion)]
      S2 == CargarLibro(S, libros, isbn)
      r == CASE t.pc = "a107" ->
                  [hilo |-> [t EXCEPT !.pc = "a110"],
                   sesion |-> AsignarDisponible(S, t.libro, FALSE, t.llamada)]
             [] t.pc = "a110" ->
                  [hilo |-> [t EXCEPT !.pc = "commit"],
                   sesion |-> Agregar(S, t.isbn, t.usuario_id, reloj, reloj, t.llamada)]
             [] t.pc = "a155" ->
                  [hilo |-> [t EXCEPT !.pc = "l159"],
                   sesion |-> AsignarDevolucion(S, t.prestamo, Fecha(reloj), t.llamada)]
             [] t.pc = "l159" ->
                  IF o.exp /\ ~o.unido
                    THEN [hilo |-> AlExcept(t, "prestamo.ISBN"), sesion |-> S]
                  ELSE [hilo |-> [t EXCEPT !.pc = "q159"], sesion |-> S1]
             [] t.pc = "q159" ->
                  IF t.falla = "query_libro"
                    THEN [hilo |-> AlExcept(t, "query_libro"), sesion |-> S]
                  ELSE [hilo |-> [t EXCEPT !.pc = "a161", !.libro = Objeto(S2.libros, isbn),
                                           !.traza = Append(@, "query_libro")],
                        sesion |-> S2]
             [] t.pc = "a161" ->
                  [hilo |-> [t EXCEPT !.pc = "commit"],
                   sesion |-> IF t.libro = SinObjeto THEN S
                              ELSE AsignarDisponible(S, t.libro, TRUE, t.llamada)]
  IN /\ t.pc \in {"a107", "a110", "a155", "l159", "q159", "a161"}
     /\ hilos' = [hilos EXCEPT ![h] = r.hilo]
     /\ sesiones' = [sesiones EXCEPT ![t.ses] = r.sesion]
     /\ UNCHANGED <<libros, usuarios, prestamos, reloj, ultimo, controlador, llamadas>>

\* session.commit(): what is pending in the objects attached to the session
\* of the thread is written in one transaction, and every object attached to
\* the session is expired.
CommitPaso(h) ==
  LET t == hilos[h]
      S == sesiones[t.ses]
  IN /\ t.pc = "commit"
     /\ IF t.falla = "commit"
          THEN /\ hilos' = [hilos EXCEPT ![h] = AlExcept(t, "commit")]
               /\ UNCHANGED <<libros, prestamos, sesiones>>
          ELSE /\ libros' = VolcarLibros(S, libros)
               /\ prestamos' = VolcarPrestamos(S, prestamos)
               /\ Len(prestamos') <= MaxPrestamos
               /\ sesiones' = [sesiones EXCEPT ![t.ses] = SesionLimpia(S)]
               /\ hilos' =
                    [k \in Hilos |->
                       LET a == [hilos[k] EXCEPT
                                   !.confirmado = @ \cup Volcados(S, hilos[k].llamada)]
                       IN IF k = h
                            THEN [AlFinally(a, Retorna(TRUE, IF EsCrearOp(t) THEN MsgPrestamoOk
                                                             ELSE MsgDevolucionOk))
                                    EXCEPT !.traza = Append(@, "commit")]
                            ELSE a]
     /\ UNCHANGED <<usuarios, reloj, ultimo, controlador, llamadas>>

\* What the except block gives: session.rollback() on None raises an
\* AttributeError, a rollback that fails raises, and otherwise the failure
\* pair is returned.
RetornoExcept(t) ==
  IF t.ses = SinSesion
    THEN Lanza("AttributeError: 'NoneType' object has no attribute 'rollback'")
  ELSE IF EsCrearOp(t) THEN ManejarErrorPrestamo(t.falla, t.rollbackFalla)
  ELSE ManejarErrorDevolucion(t.falla, t.rollbackFalla)

\* Variant: the except block returns the failure without a rollback.
Except_SinRollback(h) ==
  LET t == hilos[h]
  IN /\ t.pc = "except"
     /\ hilos' = [hilos EXCEPT ![h] = AlFinally(t, RetornoExcept(t))]
     /\ UNCHANGED <<libros, usuarios, prestamos, reloj, ultimo, controlador, sesiones, llamadas>>

\* except Exception as e: session.rollback(); return False, f"Error ...: {e}".
\* The rollback drops what is pending in the session and expires its objects.
Except(h) ==
  LET t == hilos[h]
  IN /\ t.pc = "except"
     /\ sesiones' = IF t.ses = SinSesion \/ t.rollbackFalla THEN sesiones
                    ELSE [sesiones EXCEPT ![t.ses] = SesionLimpia(@)]
     /\ hilos' = [hilos EXCEPT ![h] =
                    [AlFinally(t, RetornoExcept(t)) EXCEPT !.traza = Append(@, "rollback")]]
     /\ UNCHANGED <<libros, usuarios, prestamos, reloj, ultimo, controlador, llamadas>>

\* The rows the query of lines 189-192 gives, loaded through session S: the
\* loan, and by joinedload its book.
RECURSIVE CargarFilas(_, _, _, _)
CargarFilas(S, tl, tp, ids) ==
  IF ids = <<>> THEN [S EXCEPT !.cerrada = FALSE]
  ELSE CargarFilas(CargarLibro(CargarPrestamo(S, tp, Head(ids)), tl, tp[Head(ids)].ISBN),
                   tl, tp, Tail(ids))

\* The query of obtener_prestamos_activos (lines 189-192): the list holds
\* the objects of the session for the rows the database selects, an object
\* already in the identity map with the values it has in memory.  The
\* WHERE of the query runs in the database on the rows of the table
\* (autoflush is off).  except Exception returns [], also when the session
\* is None.
Consultar(h) ==
  LET t == hilos[h]
      activo(k) == FiltroActivos(prestamos[k])
      ids == SelectSeq([k \in 1..Len(prestamos) |-> k], activo)
      S1 == CargarFilas(sesiones[t.ses], libros, prestamos, ids)
      falla == t.ses = SinSesion \/ t.falla = "query"
  IN /\ t.pc = "consultar"
     /\ hilos' = [hilos EXCEPT ![h] =
                    IF falla
                      THEN [t EXCEPT !.pc = "cs53",
                                     !.traza = Append(@, IF t.ses = SinSesion THEN "session.query"
                                                         ELSE "query")]
                      ELSE [t EXCEPT !.pc = "cs53", !.traza = Append(@, "query"),
                                     !.filas = [n \in 1..Len(ids) |->
                                                  [prestamo |-> Objeto(S1.prestamos, ids[n]),
                                                   libro |-> Objeto(S1.libros, prestamos[ids[n]].ISBN)]]]]
     /\ sesiones' = IF falla THEN sesiones ELSE [sesiones EXCEPT ![t.ses] = S1]
     /\ UNCHANGED <<libros, usuarios, prestamos, reloj, ultimo, controlador, llamadas>>

\* finally: self.close_session(), and then the call returns.  One step each
\* for the test of line 53, for self.session.close() of line 54, which reads
\* self.session again and raises an AttributeError out of the finally block
\* when another call has set it to None, and for self.session = None of line
\* 55.  close() closes the session the controller holds, whichever thread
\* opened it, and detaches its objects.
Cerrar(h) ==
  LET t == hilos[h]
      s == controlador[t.ctl]
      sale == \/ t.pc = "cs55"
              \/ t.pc \in {"cs53", "cs54"} /\ s = SinSesion
      t1 == IF t.pc = "cs54" /\ s = SinSesion
              THEN [t EXCEPT !.retorno =
                      Lanza("AttributeError: 'NoneType' object has no attribute 'close'")]
            ELSE t
      ss == IF t.pc = "cs54" /\ s # SinSesion
              THEN [sesiones EXCEPT ![s] = SesionCerrada(@)]
            ELSE sesiones
  IN /\ t.pc \in {"cs53", "cs54", "cs55"}
     /\ hilos' = [hilos EXCEPT ![h] =
                    IF sale THEN Retornado(t1, ss)
                    ELSE IF t.pc = "cs53" THEN [t EXCEPT !.pc = "cs54"]
                    ELSE [t EXCEPT !.pc = "cs55", !.traza = Append(@, "close")]]
     /\ sesiones' = Recogidas(ss, hilos')
     /\ controlador' = IF t.pc = "cs55" THEN [controlador EXCEPT ![t.ctl] = SinSesion]
                       ELSE controlador
     /\ UNCHANGED <<libros, usuarios, prestamos, reloj, ultimo, llamadas>>

\* The steps of crear_prestamo and devolver_libro, and those of every call.
PasoEscritura(h) ==
  \/ Abrir(h)
  \/ Validar(h)
  \/ Mutar(h)
  \/ CommitPaso(h)
  \/ Except(h)
  \/ Cerrar(h)

Paso(h) ==
  \/ PasoEscritura(h)
  \/ Consultar(h)

\* The store answers, or the commit raises.
FallasHilos == {<<Ninguna, FALSE>>, <<"commit", FALSE>>}

\* What the threads ask for: one book of the catalogue and an ISBN no book
\* has, one user and an id no user has, the first loans of the ledger.
LlamarEscritura(h, c, fallasCrear, fallasDevolver) ==
  \/ \E isbn \in {CatalogoISBN[1], ISBNInexistente}, usuario_id \in {1, NumUsuarios + 1},
          f \in fallasCrear :
       Llamar(h, c, "crear_prestamo", isbn, usuario_id, 0, f[1], f[2])
  \/ \E id_prestamo \in 1..MaxPrestamos, f \in fallasDevolver :
       Llamar(h, c, "devolver_libro", "", 0, id_prestamo, f[1], f[2])

LlamarLectura(h, c, fallas) ==
  \E f \in fallas : Llamar(h, c, "obtener_prestamos_activos", "", 0, 0, f, FALSE)

\* Every thread calls a controller of its own: each call has its own session.
NextHilosPropios ==
  \E h \in Hilos :
    \/ LlamarEscritura(h, h, FallasHilos, FallasHilos)
    \/ PasoEscritura(h)

SpecHilosPropios == Init /\ [][NextHilosPropios]_vars

\* A loan is made, and then every thread, on a controller of its own, asks
\* to return it.
PrestamoDisputado == 1

NextDevolucionesPropias ==
  \/ /\ prestamos = <<>>
     /\ llamadas = 0
     /\ CrearPrestamo(CatalogoISBN[1], 1, Ninguna, FALSE, 0, 0)
  \/ \E h \in Hilos :
       \/ /\ PrestamoExiste(prestamos, PrestamoDisputado)
          /\ \E f \in FallasHilos :
               Llamar(h, h, "devolver_libro", "", 0, PrestamoDisputado, f[1], f[2])
       \/ PasoEscritura(h)

SpecDevolucionesPropias == Init /\ [][NextDevolucionesPropias]_vars

\* The two session methods called on their own, in any order, on any
\* controller: ultimo holds the controller, the session it held when the
\* method was called and the session get_session returned.
GetSession(c) ==
  LET g == get_session(controlador, sesiones, c)
  IN /\ Len(g.sesiones) <= MaxSesiones
     /\ controlador' = g.controlador
     /\ sesiones' = g.sesiones
     /\ ultimo' = [SinLlamada EXCEPT !.op = "get_session", !.ctl = c,
                                     !.previa = controlador[c], !.sesion = g.sesion]
     /\ UNCHANGED <<libros, usuarios, prestamos, reloj, hilos, llamadas>>

CloseSession(c) ==
  LET r == close_session(controlador, sesiones, c)
  IN /\ controlador' = r.controlador
     /\ sesiones' = r.sesiones
     /\ ultimo' = [SinLlamada EXCEPT !.op = "close_session", !.ctl = c,
                                     !.previa = controlador[c]]
     /\ UNCHANGED <<libros, usuarios, prestamos, reloj, hilos, llamadas>>

NextSesiones ==
  \E c \in Hilos :
    \/ GetSession(c)
    \/ CloseSession(c)

SpecSesiones == Init /\ [][NextSesiones]_vars

\* Every thread calls the one controller of app.py, on the empty ledger or
\* after a first loan was made.
ControladorDeApp == 1

NextHilosCompartido ==
  \/ /\ prestamos = <<>>
     /\ llamadas = 0
     /\ CrearPrestamo(CatalogoISBN[1], 1, Ninguna, FALSE, 0, 0)
  \/ \E h \in Hilos :
       \/ LlamarEscritura(h, ControladorDeApp, FallasHilos, FallasHilos)
       \/ LlamarLectura(h, ControladorDeApp, {Ninguna})
       \/ Paso(h)

SpecHilosCompartido == Init /\ [][NextHilosCompartido]_vars

\* One call at a time on the controller of app.py, all of them on one thread;
\* any persistence step of the call may raise, and so may the rollback.
NextSecuencial ==
  \E h \in {1} :
    /\ \/ LlamarEscritura(h, ControladorDeApp, FallasDe(PasosCrear), FallasDe(PasosDevolver))
       \/ LlamarLectura(h, ControladorDeApp, PasosConsulta \cup {Ninguna})
       \/ Paso(h)

SpecSecuencial == Init /\ [][NextSecuencial]_vars

(***************************************************************************)
(* Properties.  In an action formula the unprimed tables are the tables as *)
(* the call found them, ultimo' is the call and the primed tables are what *)
(* it left.                                                                *)
(***************************************************************************)
EsCrear(u) == u.op = "crear_prestamo"
EsDevolver(u) == u.op = "devolver_libro"
Exito(u) == ~u.retorno.lanza /\ u.retorno.exito

\* C1: for every book, Disponible is false exactly when an open loan
\* (FechaDevolución NULL) references the book.
C1_DisponibleSiiSinPrestamoAbierto ==
  \A isbn \in DOMAIN libros :
    (libros[isbn].Disponible = FALSE) <=> (AbiertosDe(prestamos, isbn) # {})

\* One book is out on an open loan while another has been loaned and returned.
C1_Testigo ==
  \E b1 \in DOMAIN libros, b2 \in DOMAIN libros :
    /\ ~libros[b1].Disponible /\ AbiertosDe(prestamos, b1) # {}
    /\ libros[b2].Disponible
    /\ \E i \in 1..Len(prestamos) : prestamos[i].ISBN = b2 /\ YaDevuelto(prestamos[i])

\* C2: each book is referenced by at most one open loan.
C2_UnPrestamoAbiertoPorLibro ==
  \A isbn \in ISBNsEntrada : Cardinality(AbiertosDe(prestamos, isbn)) <= 1

\* A book with one open loan and an earlier, returned loan.
C2_Testigo ==
  \E isbn \in DOMAIN libros :
    /\ Cardinality(AbiertosDe(prestamos, isbn)) = 1
    /\ \E i \in 1..Len(prestamos) : prestamos[i].ISBN = isbn /\ YaDevuelto(prestamos[i])

\* C3: crear_prestamo(isbn, usuario_id) returns success exactly when the book
\* exists, its Disponible flag is true and the user exists.
C3_ExitoSiiPrecondiciones ==
  [][EsCrear(ultimo') =>
       (Exito(ultimo') <=>
          /\ ultimo'.isbn \in DOMAIN libros
          /\ libros[ultimo'.isbn].Disponible = TRUE
          /\ ultimo'.usuario_id \in DOMAIN usuarios)]_vars

\* A crear_prestamo has succeeded after an earlier loan was made.
C3_Testigo == EsCrear(ultimo) /\ Exito(ultimo) /\ Len(prestamos) = 2

\* C4: a successful crear_prestamo adds exactly one loan, which references
\* the book and the user, has FechaDevolución NULL and MultaPagar 0; the book
\* is then not available and exactly one open loan references it.
C4_EfectoDeCrear ==
  [][EsCrear(ultimo') /\ Exito(ultimo') =>
       /\ Len(prestamos') = Len(prestamos) + 1
       /\ SubSeq(prestamos', 1, Len(prestamos)) = prestamos
       /\ LET p == prestamos'[Len(prestamos')]
          IN /\ p.ISBN = ultimo'.isbn
             /\ p.IdUsuario = ultimo'.usuario_id
             /\ p.FechaDevolucion = NULL
             /\ p.MultaPagar = 0
       /\ libros'[ultimo'.isbn].Disponible = FALSE
       /\ Cardinality(AbiertosDe(prestamos', ultimo'.isbn)) = 1]_vars

\* A crear_prestamo has succeeded on a book that has a returned loan too.
C4_Testigo ==
  /\ EsCrear(ultimo) /\ Exito(ultimo)
  /\ prestamos[Len(prestamos)].ISBN = ultimo.isbn
  /\ \E i \in 1..Len(prestamos) : prestamos[i].ISBN = ultimo.isbn /\ YaDevuelto(prestamos[i])

\* C5: crear_prestamo reports the first failing check in the order book
\* exists, book available, user exists: a missing book gives "Libro no
\* encontrado." whatever the user, a book that is out gives "ya está
\* prestado" whatever the user, and a crear_prestamo right after a
\* successful one on the same book gives "ya está prestado".
C5_PrimerFalloGana ==
  [][EsCrear(ultimo') =>
       LET isbn == ultimo'.isbn
           r == ultimo'.retorno
       IN /\ ~LibroExiste(libros, isbn) => r = Retorna(FALSE, MsgLibroNoEncontrado)
          /\ (LibroExiste(libros, isbn) /\ ~libros[isbn].Disponible)
               => r = Retorna(FALSE, MsgYaPrestado(libros[isbn].Titulo))
          /\ (LibroExiste(libros, isbn) /\ libros[isbn].Disponible
                /\ ~UsuarioExiste(usuarios, ultimo'.usuario_id))
               => r = Retorna(FALSE, MsgUsuarioNoEncontrado)
          /\ (EsCrear(ultimo) /\ Exito(ultimo) /\ ultimo.isbn = isbn)
               => r = Retorna(FALSE, MsgYaPrestado(libros[isbn].Titulo))]_vars

\* crear_prestamo was called for a book that is out and a user that does not
\* exist, and answered that the book is already loaned.
C5_Testigo ==
  /\ EsCrear(ultimo)
  /\ LibroExiste(libros, ultimo.isbn)
  /\ ~libros[ultimo.isbn].Disponible
  /\ ~UsuarioExiste(usuarios, ultimo.usuario_id)
  /\ ultimo.retorno = Retorna(FALSE, MsgYaPrestado(libros[ultimo.isbn].Titulo))

\* C6: devolver_libro(id_prestamo) returns success exactly when a loan with
\* that id exists and its FechaDevolución is NULL.
C6_ExitoSiiAbierto ==
  [][EsDevolver(ultimo') =>
       (Exito(ultimo') <=>
          /\ PrestamoExiste(prestamos, ultimo'.id_prestamo)
          /\ prestamos[ultimo'.id_prestamo].FechaDevolucion = NULL)]_vars

\* A devolver_libro has succeeded on the second loan of the ledger.
C6_Testigo == EsDevolver(ultimo) /\ Exito(ultimo) /\ ultimo.id_prestamo = 2

\* C7: after a successful devolver_libro the loan's FechaDevolución is not
\* NULL and the book it references, if it exists, is available.
C7_EfectoDeDevolver ==
  [][EsDevolver(ultimo') /\ Exito(ultimo') =>
       LET p == prestamos'[ultimo'.id_prestamo]
       IN /\ p.FechaDevolucion # NULL
          /\ LibroExiste(libros', p.ISBN) => libros'[p.ISBN].Disponible = TRUE]_vars

\* A devolver_libro has succeeded while another book stays out.
C7_Testigo ==
  /\ EsDevolver(ultimo) /\ Exito(ultimo)
  /\ libros[prestamos[ultimo.id_prestamo].ISBN].Disponible
  /\ \E b \in DOMAIN libros : ~libros[b].Disponible

\* C8: devolver_libro on a loan that was already returned fails with "Este
\* préstamo ya fue devuelto." and changes no book's Disponible flag, also
\* when the book has been loaned again since.
C8_SegundaDevolucionFalla ==
  [][(/\ EsDevolver(ultimo')
      /\ PrestamoExiste(prestamos, ultimo'.id_prestamo)
      /\ prestamos[ultimo'.id_prestamo].FechaDevolucion # NULL) =>
       /\ ultimo'.retorno = Retorna(FALSE, MsgYaDevuelto)
       /\ libros' = libros]_vars

\* The second devolver_libro of a loan came after the book was loaned again:
\* it failed and the book is still out.
C8_Testigo ==
  /\ EsDevolver(ultimo)
  /\ ultimo.retorno = Retorna(FALSE, MsgYaDevuelto)
  /\ LET p == prestamos[ultimo.id_prestamo]
     IN /\ ~libros[p.ISBN].Disponible
        /\ AbiertosDe(prestamos, p.ISBN) # {}

\* C9: when the commit of crear_prestamo or devolver_libro raises, the call
\* leaves no loan added, no return date set and no Disponible flag changed,
\* and it returns a failure pair.
C9_TodoONada ==
  [][ultimo'.fallo = "commit" =>
       /\ libros' = libros
       /\ prestamos' = prestamos
       /\ ultimo'.retorno.lanza = FALSE
       /\ ultimo'.retorno.exito = FALSE]_vars

\* C10: crear_prestamo and devolver_libro always return an (exito, mensaje)
\* pair; no exception reaches the caller, whichever persistence step raises.
C10_NuncaLanza == ultimo.retorno.lanza = FALSE

\* C11: a crear_prestamo or devolver_libro that returns a business failure
\* (book not found, book already loaned, user not found, loan not found, loan
\* already returned) leaves every Disponible flag and every loan as it was
\* and adds no loan; devolver_libro on an id no loan has fails with
\* "Préstamo no encontrado.".
C11_FalloDeNegocioNoCambiaNada ==
  [][(EsCrear(ultimo') \/ EsDevolver(ultimo')) =>
       LET r == ultimo'.retorno
           negocio == {MsgLibroNoEncontrado, MsgUsuarioNoEncontrado,
                       MsgPrestamoNoEncontrado, MsgYaDevuelto}
                        \cup {MsgYaPrestado(libros[i].Titulo) : i \in DOMAIN libros}
       IN /\ (~r.lanza /\ ~r.exito /\ r.mensaje \in negocio)
               => (libros' = libros /\ prestamos' = prestamos)
          /\ (EsDevolver(ultimo') /\ ultimo'.id_prestamo \notin 1..Len(prestamos))
               => r = Retorna(FALSE, MsgPrestamoNoEncontrado)]_vars

\* devolver_libro was called with an id no loan has, while a book is out on
\* loan, and answered "Préstamo no encontrado.".
C11_Testigo ==
  /\ EsDevolver(ultimo)
  /\ ultimo.id_prestamo > Len(prestamos)
  /\ ultimo.retorno = Retorna(FALSE, MsgPrestamoNoEncontrado)
  /\ \E b \in DOMAIN libros : ~libros[b].Disponible /\ AbiertosDe(prestamos, b) # {}

\* C12: obtener_prestamos_activos called right after a successful
\* crear_prestamo(isbn, usuario_id) returns exactly one entry with that ISBN
\* and that IdUsuario; called right after a successful devolver_libro of a
\* loan it returns no entry for that loan.
C12_IdaYVueltaEnActivos ==
  [][ultimo'.op = "obtener_prestamos_activos" =>
       LET lista == ultimo'.lista
       IN /\ (EsCrear(ultimo) /\ Exito(ultimo)) =>
               Cardinality({n \in DOMAIN lista :
                              /\ lista[n].prestamo.ISBN = ultimo.isbn
                              /\ lista[n].prestamo.IdUsuario = ultimo.usuario_id}) = 1
          /\ (EsDevolver(ultimo) /\ Exito(ultimo)) =>
               \A n \in DOMAIN lista : lista[n].prestamo.IdPrestamo # ultimo.id_prestamo]_vars

\* obtener_prestamos_activos has returned the second loan alone, the first
\* loan having been returned.
C12_Testigo ==
  /\ ultimo.op = "obtener_prestamos_activos"
  /\ Len(prestamos) = 2 /\ prestamos[1].FechaDevolucion # NULL
  /\ Len(ultimo.lista) = 1 /\ ultimo.lista[1].prestamo.IdPrestamo = 2

\* C13: the ledger is append-only: no step removes a loan, and the
\* IdPrestamo, ISBN, IdUsuario, FechaPréstamo and FechaVencimiento of a loan
\* stay as they were created.
C13_LibroMayorSoloCrece ==
  [][/\ Len(prestamos') >= Len(prestamos)
     /\ \A i \in 1..Len(prestamos) :
          /\ prestamos'[i].IdPrestamo = prestamos[i].IdPrestamo
          /\ prestamos'[i].ISBN = prestamos[i].ISBN
          /\ prestamos'[i].IdUsuario = prestamos[i].IdUsuario
          /\ prestamos'[i].FechaPrestamo = prestamos[i].FechaPrestamo
          /\ prestamos'[i].FechaVencimiento = prestamos[i].FechaVencimiento]_vars

\* The first of two loans has been returned and is still in the ledger under
\* its id, and the last call was a read.
C13_Testigo ==
  /\ Len(prestamos) = 2
  /\ prestamos[1].IdPrestamo = 1 /\ prestamos[1].FechaDevolucion # NULL
  /\ prestamos[2].IdPrestamo = 2
  /\ ultimo.op = "obtener_prestamos_activos"

\* C14: once devolver_libro has set a loan's FechaDevolución, no later call
\* changes it or sets it back to NULL.
C14_DevolucionUnaSolaVez ==
  [][\A i \in 1..Len(prestamos) :
       prestamos[i].FechaDevolucion # NULL =>
         /\ i <= Len(prestamos')
         /\ prestamos'[i].FechaDevolucion = prestamos[i].FechaDevolucion]_vars

\* The first loan was returned at instant 1 and keeps that date after the
\* second loan was returned at instant 2.
C14_Testigo ==
  /\ Len(prestamos) = 2
  /\ prestamos[1].FechaDevolucion = Fecha(1)
  /\ prestamos[2].FechaDevolucion = Fecha(2)

\* C15: two crear_prestamo calls for the same available book that run
\* concurrently, each in a session and transaction of its own, never both
\* succeed and never leave the book with two open loans.
C15_NoDosPrestamosALaVez ==
  /\ \A isbn \in DOMAIN libros : Cardinality(AbiertosDe(prestamos, isbn)) <= 1
  /\ ~ \E h1 \in Hilos, h2 \in Hilos :
         /\ h1 # h2
         /\ \A h \in {h1, h2} :
              /\ hilos[h].pc = "retornado"
              /\ hilos[h].op = "crear_prestamo"
              /\ Exito(hilos[h])
         /\ hilos[h1].isbn = hilos[h2].isbn
         /\ \A i \in 1..Len(prestamos) :
              prestamos[i].ISBN = hilos[h1].isbn => prestamos[i].FechaDevolucion = NULL

\* C16: on the controller the routes share, a call of crear_prestamo or
\* devolver_libro that returns success has had both of its own mutations (the
\* loan and the book) written to the tables, and one that returns failure
\* has had none: no other call's commit, rollback or close acts on them.
C16_TransaccionesAisladas ==
  \A h \in Hilos :
    (/\ hilos[h].pc = "retornado"
     /\ hilos[h].op \in {"crear_prestamo", "devolver_libro"}
     /\ ~hilos[h].retorno.lanza) =>
      /\ hilos[h].retorno.exito => hilos[h].confirmado = {"libro", "prestamo"}
      /\ ~hilos[h].retorno.exito => hilos[h].confirmado = {}

\* C17: after a call returns, by success, business failure or caught
\* exception, self.session of its controller is None and the session the
\* call used has been closed.
C17_SesionLiberada ==
  \A h \in Hilos :
    hilos[h].pc = "retornado" =>
      /\ controlador[hilos[h].ctl] = SinSesion
      /\ hilos[h].ses # SinSesion => sesiones[hilos[h].ses].cerrada

\* The second call of the run opened a session of its own, its commit raised,
\* the except block returned the failure, and the session is closed.
C17_Testigo ==
  /\ hilos[1].pc = "retornado"
  /\ hilos[1].llamada = 2
  /\ hilos[1].falla = "commit"
  /\ hilos[1].retorno.lanza = FALSE
  /\ hilos[1].ses = 2
  /\ sesiones[2].cerrada
  /\ controlador[hilos[1].ctl] = SinSesion

\* C21: every read operation (all books, available books, search, open
\* loans, all users) returns the empty list and raises nothing when the store
\* fails at any step of the read, the opening of the session included.
C21_LecturaFallidaDaListaVacia ==
  ultimo.op \in {"obtener_todos_libros", "obtener_disponibles", "buscar",
                 "obtener_prestamos_activos", "obtener_todos_usuarios"} =>
    /\ ultimo.retorno.lanza = FALSE
    /\ ultimo.fallo \in {"get_session", "query"} => ultimo.lista = <<>>

\* obtener_prestamos_activos was called while a loan is open and the opening
\* of the session failed: it returned [].
C21_Testigo ==
  /\ ultimo.op = "obtener_prestamos_activos"
  /\ ultimo.fallo = "get_session"
  /\ ultimo.retorno.lanza = FALSE
  /\ ultimo.lista = <<>>
  /\ \E i \in 1..Len(prestamos) : prestamos[i].FechaDevolucion = NULL

\* C22: when the book an open loan references is not in tblLibros at return
\* time, devolver_libro still succeeds and sets the loan's FechaDevolución,
\* and it changes no book's Disponible flag.
C22_DevolucionSinLibro ==
  [][(/\ EsDevolver(ultimo')
      /\ ultimo'.id_prestamo \in 1..Len(prestamos)
      /\ prestamos[ultimo'.id_prestamo].FechaDevolucion = NULL
      /\ prestamos[ultimo'.id_prestamo].ISBN \notin DOMAIN libros) =>
       /\ Exito(ultimo')
       /\ prestamos'[ultimo'.id_prestamo].FechaDevolucion # NULL
       /\ libros' = libros]_vars

\* A devolver_libro has succeeded on a loan whose book is not in tblLibros,
\* while another book is out on loan.
C22_Testigo ==
  /\ EsDevolver(ultimo) /\ Exito(ultimo)
  /\ prestamos[ultimo.id_prestamo].ISBN \notin DOMAIN libros
  /\ prestamos[ultimo.id_prestamo].FechaDevolucion # NULL
  /\ \E b \in DOMAIN libros : ~libros[b].Disponible

\* C23: a user whose UsuarioActivo flag is false cannot obtain a loan:
\* crear_prestamo for an inactive user does not succeed and creates no loan.
C23_InactivoNoObtienePrestamo ==
  [][(/\ EsCrear(ultimo')
      /\ ultimo'.usuario_id \in DOMAIN usuarios
      /\ usuarios[ultimo'.usuario_id].UsuarioActivo = FALSE) =>
       /\ ~Exito(ultimo')
       /\ prestamos' = prestamos]_vars

\* C24: after UsuarioController.crear(nombre, apellido, email) succeeds the
\* store holds one more user, with those names and UsuarioActivo true; and a
\* later crear_prestamo for a user registered that way on any existing,
\* available book succeeds.
C24_AltaYPrimerPrestamo ==
  [][/\ (ultimo'.op = "crear_usuario" /\ Exito(ultimo')) =>
          /\ Len(usuarios') = Len(usuarios) + 1
          /\ SubSeq(usuarios', 1, Len(usuarios)) = usuarios
          /\ LET u == usuarios'[Len(usuarios')]
             IN /\ u.Nombres = ultimo'.nombre
                /\ u.Apellidos = ultimo'.apellido
                /\ u.UsuarioActivo = TRUE
     /\ (/\ EsCrear(ultimo')
         /\ ultimo'.usuario_id \in DOMAIN usuarios
         /\ ultimo'.usuario_id > NumUsuarios
         /\ ultimo'.isbn \in DOMAIN libros
         /\ libros[ultimo'.isbn].Disponible) => Exito(ultimo')]_vars

\* A user registered by crear has obtained a loan.
C24_Testigo ==
  /\ EsCrear(ultimo) /\ Exito(ultimo)
  /\ ultimo.usuario_id = NumUsuarios + 1
  /\ usuarios[ultimo.usuario_id].Nombres = "Estudiante"
  /\ usuarios[ultimo.usuario_id].UsuarioActivo
  /\ prestamos[Len(prestamos)].IdUsuario = ultimo.usuario_id

\* C25: UsuarioController.crear always returns a (success, message) pair: on
\* any persistence failure, the opening of the session included, it leaves
\* the users as they were and returns (False, message) without raising.
C25_AltaNuncaLanza ==
  [][ultimo'.op = "crear_usuario" =>
       /\ ultimo'.retorno.lanza = FALSE
       /\ ultimo'.fallo # Ninguna =>
            (ultimo'.retorno.exito = FALSE /\ usuarios' = usuarios)]_vars

\* C26: for every loan created by crear_prestamo, FechaVencimiento equals
\* FechaPréstamo plus exactly 14 days, also when the clock advances between
\* the steps of the call.
C26_VencimientoCatorceDias ==
  \A i \in 1..Len(prestamos) :
    Instante(prestamos[i].FechaVencimiento) =
      Instante(prestamos[i].FechaPrestamo) + timedelta(DiasPrestamo)

\* C27: two devolver_libro calls for the same open loan that run
\* concurrently, each in a session and transaction of its own, never both
\* succeed: one sets FechaDevolución and the other returns "Este préstamo ya
\* fue devuelto.".
C27_NoDosDevolucionesALaVez ==
  ~ \E h1 \in Hilos, h2 \in Hilos :
      /\ h1 # h2
      /\ \A h \in {h1, h2} :
           /\ hilos[h].pc = "retornado"
           /\ hilos[h].op = "devolver_libro"
           /\ hilos[h].id_prestamo = PrestamoDisputado
           /\ Exito(hilos[h])

\* C28: the lifecycle is cyclic.  crear_prestamo for an existing user on a
\* book that has been loaned and whose loans are all returned succeeds and
\* opens one loan of the book; every successful devolver_libro adds one
\* closed loan to the history of the book and removes none.
C28_CicloDeVida ==
  [][/\ (/\ EsCrear(ultimo')
         /\ ultimo'.isbn \in DOMAIN libros
         /\ ultimo'.usuario_id \in DOMAIN usuarios
         /\ \E i \in 1..Len(prestamos) : prestamos[i].ISBN = ultimo'.isbn
         /\ AbiertosDe(prestamos, ultimo'.isbn) = {}) =>
          /\ Exito(ultimo')
          /\ AbiertosDe(prestamos', ultimo'.isbn) = {Len(prestamos) + 1}
     /\ (EsDevolver(ultimo') /\ Exito(ultimo')) =>
          LET cerrados(tabla) == {i \in 1..Len(tabla) : ~Abierto(tabla[i])}
          IN /\ cerrados(prestamos') = cerrados(prestamos) \cup {ultimo'.id_prestamo}
             /\ ultimo'.id_prestamo \notin cerrados(prestamos)
             /\ AbiertosDe(prestamos', prestamos[ultimo'.id_prestamo].ISBN) = {}]_vars

\* The same book has gone through the cycle twice: two closed loans of it
\* are in the history and it is available again.
C28_Testigo ==
  /\ EsDevolver(ultimo) /\ Exito(ultimo)
  /\ Len(prestamos) = 2
  /\ prestamos[1].ISBN = prestamos[2].ISBN
  /\ \A i \in 1..2 : ~Abierto(prestamos[i])
  /\ libros[prestamos[1].ISBN].Disponible

\* C29: whenever crear_prestamo or devolver_libro returns the failure pair
\* of a persistence error, the step that raised was run once (no retry), the
\* rollback of the session came right after it, and the close of the
\* session came after the rollback, as the last step before the return.
C29_FalloRollbackCierre ==
  \A h \in Hilos :
    LET t == hilos[h]
        n == Len(t.traza)
        veces(paso) == Cardinality({i \in 1..n : t.traza[i] = paso})
    IN (/\ t.pc = "retornado"
        /\ t.op \in OpsEscritura
        /\ t.retorno = IF EsCrearOp(t) THEN ManejarErrorPrestamo(t.falla, FALSE)
                                       ELSE ManejarErrorDevolucion(t.falla, FALSE)) =>
         /\ n >= 3
         /\ t.traza[n] = "close"
         /\ t.traza[n - 1] = "rollback"
         /\ t.traza[n - 2] = t.falla
         /\ veces(t.falla) = 1
         /\ veces("rollback") = 1
         /\ veces("close") = 1

\* The commit of a devolver_libro raised: the call ran its queries, the
\* commit, the rollback and the close, and returned the failure pair.
C29_Testigo ==
  /\ hilos[1].pc = "retornado"
  /\ hilos[1].op = "devolver_libro"
  /\ hilos[1].retorno = ManejarErrorDevolucion("commit", FALSE)
  /\ hilos[1].traza = <<"get_session", "query", "query_libro", "commit", "rollback", "close">>

\* C30: MultaPagar of every loan is 0 in every reachable state:
\* crear_prestamo stores 0 and devolver_libro leaves the fee as it is, also
\* when FechaDevolución is later than FechaVencimiento.
C30_MultaSiempreCero ==
  \A i \in 1..Len(prestamos) : prestamos[i].MultaPagar = 0

\* A loan has been returned after its due date.
C30_Testigo ==
  /\ EsDevolver(ultimo) /\ Exito(ultimo)
  /\ LET p == prestamos[ultimo.id_prestamo]
     IN /\ p.FechaDevolucion # NULL
        /\ Instante(p.FechaDevolucion) > Instante(p.FechaVencimiento)
        /\ p.MultaPagar = 0

\* C31: the seven query operations are read-only: whether the call succeeds
\* or fails, no book's Disponible flag, no loan and no user changes.
C31_ConsultasSoloLeen ==
  [][ultimo'.op \in OpsLectura =>
       /\ libros' = libros
       /\ prestamos' = prestamos
       /\ usuarios' = usuarios]_vars

\* With a book out on loan, obtener_por_id has found that book, still out.
C31_Testigo ==
  /\ ultimo.op = "obtener_por_id"
  /\ ultimo.fallo = Ninguna
  /\ Len(ultimo.lista) = 1
  /\ ultimo.lista[1].Disponible = FALSE
  /\ AbiertosDe(prestamos, ultimo.isbn) # {}

\* C32: a successful crear_prestamo for a book changes the Disponible flag of
\* that book and nothing else of the catalogue, and adds one loan after the
\* loans there were, all unchanged; a successful devolver_libro of a loan
\* changes the FechaDevolución of that loan and nothing else of the ledger,
\* and the Disponible flag of its book and nothing else of the catalogue.
C32_SoloLoSuyo ==
  [][/\ (EsCrear(ultimo') /\ Exito(ultimo')) =>
          /\ DOMAIN libros' = DOMAIN libros
          /\ \A b \in DOMAIN libros :
               IF b = ultimo'.isbn
                 THEN libros'[b] = [libros[b] EXCEPT !.Disponible = libros'[b].Disponible]
                 ELSE libros'[b] = libros[b]
          /\ Len(prestamos') = Len(prestamos) + 1
          /\ \A i \in 1..Len(prestamos) : prestamos'[i] = prestamos[i]
          /\ usuarios' = usuarios
     /\ (EsDevolver(ultimo') /\ Exito(ultimo')) =>
          LET L == ultimo'.id_prestamo
          IN /\ Len(prestamos') = Len(prestamos)
             /\ \A i \in 1..Len(prestamos) :
                  IF i = L
                    THEN prestamos'[i] =
                           [prestamos[i] EXCEPT !.FechaDevolucion = prestamos'[i].FechaDevolucion]
                    ELSE prestamos'[i] = prestamos[i]
             /\ DOMAIN libros' = DOMAIN libros
             /\ \A b \in DOMAIN libros :
                  IF b = prestamos[L].ISBN
                    THEN libros'[b] = [libros[b] EXCEPT !.Disponible = libros'[b].Disponible]
                    ELSE libros'[b] = libros[b]
             /\ usuarios' = usuarios]_vars

\* A second book has been loaned while the first one is still out: the loan
\* and the flag of the first are as they were.
C32_Testigo ==
  /\ EsCrear(ultimo) /\ Exito(ultimo)
  /\ Len(prestamos) = 2
  /\ prestamos[1].ISBN # ultimo.isbn
  /\ Abierto(prestamos[1])
  /\ ~libros[prestamos[1].ISBN].Disponible
  /\ ~libros[ultimo.isbn].Disponible

\* C33: in every state reached by crear_prestamo, devolver_libro and
\* UsuarioController.crear, every loan of the ledger references a book of
\* tblLibros and a user of tblUsuarios.
C33_PrestamosReferenciados ==
  \A i \in 1..Len(prestamos) :
    /\ LibroExiste(libros, prestamos[i].ISBN)
    /\ prestamos[i].IdUsuario \in 1..Len(usuarios)

\* The ledger holds a loan of a user registered by crear and a loan of a
\* user of the initial table, one of them returned.
C33_Testigo ==
  /\ Len(prestamos) = 2
  /\ {prestamos[i].IdUsuario : i \in 1..2} = {1, NumUsuarios + 1}
  /\ \E i \in 1..2 : ~Abierto(prestamos[i])
  /\ Len(usuarios) = NumUsuarios + 1

\* C34: get_session is lazy and reusing, close_session is idle on an idle
\* controller.  On a controller that holds no session, get_session opens one
\* new session, keeps it and returns it; on a controller that holds one it
\* returns that one and opens none; two consecutive get_session calls on a
\* controller return the same session; close_session on a controller that
\* holds no session changes nothing.
C34_SesionPerezosa ==
  [][/\ ultimo'.op = "get_session" =>
          LET c == ultimo'.ctl
          IN /\ controlador[c] = SinSesion =>
                  /\ Len(sesiones') = Len(sesiones) + 1
                  /\ SubSeq(sesiones', 1, Len(sesiones)) = sesiones
                  /\ ultimo'.sesion = Len(sesiones')
                  /\ sesiones'[ultimo'.sesion].cerrada = FALSE
             /\ controlador[c] # SinSesion =>
                  /\ ultimo'.sesion = controlador[c]
                  /\ sesiones' = sesiones
             /\ controlador'[c] = ultimo'.sesion
             /\ \A k \in DOMAIN controlador : k # c => controlador'[k] = controlador[k]
             /\ (ultimo.op = "get_session" /\ ultimo.ctl = c) => ultimo'.sesion = ultimo.sesion
     /\ (ultimo'.op = "close_session" /\ controlador[ultimo'.ctl] = SinSesion) =>
          /\ controlador' = controlador
          /\ sesiones' = sesiones]_vars

\* get_session was called on a controller that held session 2, after it had
\* closed session 1: the call returned session 2 and opened none.
C34_Testigo ==
  /\ ultimo.op = "get_session"
  /\ ultimo.previa = 2
  /\ Len(sesiones) = 2
  /\ sesiones[1].cerrada /\ ~sesiones[2].cerrada
  /\ controlador[ultimo.ctl] = 2
  /\ ultimo.sesion = 2
  /\ \A k \in DOMAIN controlador : k # ultimo.ctl => controlador[k] = SinSesion

\* C18: buscar(termino) returns exactly the books whose Título, ISBN, author
\* Nombres or author Apellidos contains termino; the books of an author whose
\* Apellidos contains the term are all returned.
C18_BuscarDevuelveLasCoincidencias ==
  ultimo.op = "buscar" =>
    {ultimo.lista[n].ISBN : n \in DOMAIN ultimo.lista}
      = {isbn \in DOMAIN libros :
           \/ Contiene(libros[isbn].Titulo, ultimo.termino)
           \/ Contiene(isbn, ultimo.termino)
           \/ Contiene(Autores[libros[isbn].IdAutor].Nombres, ultimo.termino)
           \/ Contiene(Autores[libros[isbn].IdAutor].Apellidos, ultimo.termino)}

\* C19: obtener_prestamos_activos returns exactly the loans whose
\* FechaDevolución is NULL, each once, after any run of crear_prestamo and
\* devolver_libro calls.
C19_ActivosSonLosAbiertos ==
  ultimo.op = "obtener_prestamos_activos" =>
    LET abiertos == {i \in 1..Len(prestamos) : prestamos[i].FechaDevolucion = NULL}
    IN /\ {ultimo.lista[n].prestamo : n \in DOMAIN ultimo.lista} = {prestamos[i] : i \in abiertos}
       /\ Len(ultimo.lista) = Cardinality(abiertos)

\* obtener_prestamos_activos has returned the first loan alone, the second
\* loan having been returned.
C19_Testigo ==
  /\ ultimo.op = "obtener_prestamos_activos"
  /\ Len(prestamos) = 2 /\ prestamos[2].FechaDevolucion # NULL
  /\ Len(ultimo.lista) = 1 /\ ultimo.lista[1].prestamo = prestamos[1]

\* C20: obtener_disponibles returns exactly the books whose Disponible flag
\* is true, each once; after any run of crear_prestamo and devolver_libro
\* calls a book is in the list exactly when no open loan references it.
C20_DisponiblesSonLosLibres ==
  ultimo.op = "obtener_disponibles" =>
    LET enLista(isbn) == \E n \in DOMAIN ultimo.lista : ultimo.lista[n].ISBN = isbn
    IN /\ \A n \in DOMAIN ultimo.lista : ultimo.lista[n].ISBN \in DOMAIN libros
       /\ \A isbn \in DOMAIN libros :
            /\ enLista(isbn) <=> libros[isbn].Disponible = TRUE
            /\ enLista(isbn) <=> AbiertosDe(prestamos, isbn) = {}
       /\ Len(ultimo.lista) = Cardinality({isbn \in DOMAIN libros : enLista(isbn)})

\* obtener_disponibles has returned one book, which was loaned and returned,
\* while another book is out.
C20_Testigo ==
  /\ ultimo.op = "obtener_disponibles"
  /\ Len(ultimo.lista) = 1
  /\ \E i \in 1..Len(prestamos) :
       prestamos[i].ISBN = ultimo.lista[1].ISBN /\ prestamos[i].FechaDevolucion # NULL
  /\ \E b \in DOMAIN libros : ~libros[b].Disponible

====
